---------------------------- MODULE Spec2Model ----------------------------
(***************************************************************************)
(* A model of the conformation samplers of qfit (src/src/qfit/samplers.py).*)
(*                                                                         *)
(* Arithmetic.  The samplers compute with floating-point coordinates,      *)
(* sines and cosines.  The model computes exactly in the ring              *)
(* Z[sqrt 2, 1/2]: a number is a triple <<a, b, k>> standing for           *)
(* (a + b*sqrt 2) / 2^k, kept in lowest terms.  Angles are multiples of    *)
(* 45 degrees; a value in radians is represented by its number of eighth   *)
(* turns (pi/4), so that np.deg2rad is a real conversion (division by 45)  *)
(* and cos/sin are table look-ups with values in {0, +-1, +-sqrt 2 / 2}.   *)
(* "Within tolerance" in the code is exact equality in the model.          *)
(***************************************************************************)
EXTENDS Integers, Sequences, FiniteSets, TLC

VARIABLES
    name,    \* the bound structure's atom names, one per atom
    coor,    \* the bound structure's coordinate array, one vector per atom
    conn,    \* the ligand's connectivity: conn[i] is the set of atoms bonded to i
    input,   \* what the sampler was constructed from
    rot,     \* the sampler object: its fields after __init__
    err,     \* the exception the last operation raised, or "none"
    ret,     \* the value the last call returned (None: <<>>)
    coor0,   \* history: the structure's coordinates when the sampler was constructed
    call,    \* history: the last call made, [op, arg]
    done,    \* history: the last call that returned normally, [op, arg]
    nset,    \* history: the number of set_xyz calls the last call made
    dirty    \* history: whether the last call found the structure away from coor0

vars == <<name, coor, conn, input, rot, err, ret, coor0, call, done, nset, dirty>>

\* ------------------------------------------------------------------------
\* Exact numbers (a + b*sqrt 2) / 2^k
\* ------------------------------------------------------------------------

RECURSIVE Reduce(_, _, _)
Reduce(a, b, k) ==
    IF k > 0 /\ a % 2 = 0 /\ b % 2 = 0
    THEN Reduce(a \div 2, b \div 2, k - 1)
    ELSE <<a, b, k>>

I(n) == <<n, 0, 0>>

Zero == I(0)

One == I(1)

Sqrt2 == <<0, 1, 0>>

HalfSqrt2 == <<0, 1, 1>>

MaxOf(m, n) == IF m >= n THEN m ELSE n

Add(x, y) ==
    IF x[3] = y[3] THEN Reduce(x[1] + y[1], x[2] + y[2], x[3])
    ELSE LET k == MaxOf(x[3], y[3])
         IN  Reduce(x[1] * 2^(k - x[3]) + y[1] * 2^(k - y[3]),
                    x[2] * 2^(k - x[3]) + y[2] * 2^(k - y[3]), k)

Neg(x) == <<0 - x[1], 0 - x[2], x[3]>>

Sub(x, y) == Add(x, Neg(y))

Mul(x, y) ==
    Reduce(x[1] * y[1] + 2 * x[2] * y[2], x[1] * y[2] + x[2] * y[1], x[3] + y[3])

\* sign of a + b*sqrt 2, decided on integers: compare a^2 with 2 b^2
Sign(x) ==
    LET a == x[1]
        b == x[2]
    IN  IF a = 0 /\ b = 0 THEN 0
        ELSE IF a >= 0 /\ b >= 0 THEN 1
        ELSE IF a <= 0 /\ b <= 0 THEN -1
        ELSE IF a > 0 THEN (IF a * a > 2 * b * b THEN 1 ELSE -1)
        ELSE (IF 2 * b * b > a * a THEN 1 ELSE -1)

Less(x, y) == Sign(Sub(x, y)) < 0

\* the exponent e with n = 2^e (n a power of two)
RECURSIVE Log2(_)
Log2(n) == IF n = 1 THEN 0 ELSE 1 + Log2(n \div 2)

\* 1/x for x = (a + b sqrt 2)/2^k with a^2 - 2 b^2 = +-2^e:
\* (a - b sqrt 2) * 2^k / (a^2 - 2 b^2)
Inv(x) ==
    LET n == x[1] * x[1] - 2 * x[2] * x[2]
        s == IF n < 0 THEN -1 ELSE 1
        e == Log2(s * n)
    IN  Reduce(s * x[1] * 2^x[3], 0 - s * x[2] * 2^x[3], e)

Div(x, y) == Mul(x, Inv(y))

\* the non-negative numbers the model's lengths take; np.sqrt is exact on
\* their squares
SqrtRange ==
    {Reduce(a, 0, k) : a \in 0..6, k \in 0..2} \cup {Reduce(0, b, k) : b \in 0..6, k \in 0..2}

Sqrt(x) == CHOOSE r \in SqrtRange : Mul(r, r) = x

\* ------------------------------------------------------------------------
\* Vectors (sequences of numbers) and 3x3 matrices (sequences of rows)
\* ------------------------------------------------------------------------

V(x, y, z) == <<I(x), I(y), I(z)>>

VAdd(u, v) == <<Add(u[1], v[1]), Add(u[2], v[2]), Add(u[3], v[3])>>

VSub(u, v) == <<Sub(u[1], v[1]), Sub(u[2], v[2]), Sub(u[3], v[3])>>

VScale(u, c) == <<Mul(u[1], c), Mul(u[2], c), Mul(u[3], c)>>

RECURSIVE SumSq(_)
SumSq(u) == IF u = <<>> THEN Zero ELSE Add(Mul(Head(u), Head(u)), SumSq(Tail(u)))

\* np.linalg.norm
Norm(u) == Sqrt(SumSq(u))

Dot(u, v) == Add(Add(Mul(u[1], v[1]), Mul(u[2], v[2])), Mul(u[3], v[3]))

\* np.cross
Cross(u, v) ==
    << Sub(Mul(u[2], v[3]), Mul(u[3], v[2])),
       Sub(Mul(u[3], v[1]), Mul(u[1], v[3])),
       Sub(Mul(u[1], v[2]), Mul(u[2], v[1])) >>

Transpose(M) ==
    << <<M[1][1], M[2][1], M[3][1]>>,
       <<M[1][2], M[2][2], M[3][2]>>,
       <<M[1][3], M[2][3], M[3][3]>> >>

MatVec(M, v) == <<Dot(M[1], v), Dot(M[2], v), Dot(M[3], v)>>

\* the row u times the matrix B
RowMat(u, B) ==
    << Add(Add(Mul(u[1], B[1][1]), Mul(u[2], B[2][1])), Mul(u[3], B[3][1])),
       Add(Add(Mul(u[1], B[1][2]), Mul(u[2], B[2][2])), Mul(u[3], B[3][2])),
       Add(Add(Mul(u[1], B[1][3]), Mul(u[2], B[2][3])), Mul(u[3], B[3][3])) >>

MatMul(A, B) == <<RowMat(A[1], B), RowMat(A[2], B), RowMat(A[3], B)>>

Identity == <<V(1, 0, 0), V(0, 1, 0), V(0, 0, 1)>>

\* ------------------------------------------------------------------------
\* Angles: degrees are integers, radians are counted in eighth turns (pi/4)
\* ------------------------------------------------------------------------

\* np.deg2rad on multiples of 45 degrees
deg2rad(d) == d \div 45

Cos(q) ==
    CASE q % 8 = 0 -> One
      [] q % 8 \in {1, 7} -> HalfSqrt2
      [] q % 8 \in {2, 6} -> Zero
      [] q % 8 \in {3, 5} -> Neg(HalfSqrt2)
      [] q % 8 = 4 -> Neg(One)

Sin(q) == Cos(q - 2)

\* np.arccos, with values in [0, pi]
arccos(c) == CHOOSE q \in 0..4 : Cos(q) = c

\* qfit.structure.math.Rz: right-handed rotation about the Z axis
Rz(q) ==
    << <<Cos(q), Neg(Sin(q)), Zero>>,
       <<Sin(q), Cos(q), Zero>>,
       <<Zero, Zero, One>> >>

\* qfit.structure.math.Ry: right-handed rotation about the Y axis
Ry(q) ==
    << <<Cos(q), Zero, Sin(q)>>,
       <<Zero, One, Zero>>,
       <<Neg(Sin(q)), Zero, Cos(q)>> >>

\* ------------------------------------------------------------------------
\* ZAxisAligner
\* ------------------------------------------------------------------------

\* A division by a zero norm gives nan/inf components in numpy (a warning,
\* no exception); every later value is nan and np.allclose is False.
NaN == <<>>

\* None: no value
None == <<>>

Raised(e) == [ok |-> FALSE, error |-> e]

\* mutant: the two transposes multiplied in the order of the forward rotation
AlignerBackwardSwapped(rz, ry) == MatMul(Transpose(rz), Transpose(ry))

\* self.backward_rotation = self._Ry.T @ self._Rz.T
AlignerBackward(rz, ry) == MatMul(Transpose(ry), Transpose(rz))

ZAxisAligner(axis) ==
    IF axis = NaN \/ Norm(<<axis[1], axis[2]>>) = Zero
    THEN Raised("ValueError")
    ELSE
      LET a1 == VScale(axis, Inv(Norm(<<axis[1], axis[2]>>)))
          xaxis_angle == IF Less(a1[2], Zero) THEN 0 - arccos(a1[1]) ELSE arccos(a1[1])
          rz == Rz(xaxis_angle)
          a2 == MatVec(Transpose(rz), a1)
          za == arccos(Div(a2[3], Norm(a2)))
          zaxis_angle == IF Less(a2[1], Zero) THEN 0 - za ELSE za
          ry == Ry(zaxis_angle)
          a3 == VScale(MatVec(Transpose(ry), a2), Inv(Norm(a2)))
      IN  IF a3 # V(0, 0, 1)
          THEN Raised("ValueError")
          ELSE [ok |-> TRUE,
                Rz |-> rz,
                Ry |-> ry,
                backward_rotation |-> AlignerBackward(rz, ry),
                forward_rotation |-> MatMul(rz, ry)]

\* ------------------------------------------------------------------------
\* Structure accessor (qfit.structure): coordinates by atom-index selection
\* ------------------------------------------------------------------------

\* structure.coor (getter): a copy of the whole coordinate array, which the
\* sampler may keep and change without touching the structure
coor_get(c) == c

\* structure.coor = value (setter): the whole coordinate array is replaced
coor_set(c, value) == value

\* structure.get_xyz(selection): a copy of the selected atoms' coordinates,
\* in the order of the selection
get_xyz(c, selection) == [k \in 1..Len(selection) |-> c[selection[k]]]

\* structure.set_xyz(new, selection): writes the selected atoms and no other
\* (for an index that occurs twice the last value written stays)
set_xyz(c, new, selection) ==
    [i \in DOMAIN c |->
        IF \E k \in 1..Len(selection) : selection[k] = i
        THEN new[CHOOSE k \in 1..Len(selection) :
                    /\ selection[k] = i
                    /\ \A m \in 1..Len(selection) : selection[m] = i => m <= k]
        ELSE c[i]]

\* the ascending sequence of the members of a set of atom indices
RECURSIVE SortedSeq(_)
SortedSeq(S) ==
    IF S = {} THEN <<>>
    ELSE LET m == CHOOSE x \in S : \A y \in S : x <= y
         IN  <<m>> \o SortedSeq(S \ {m})

Range(f) == {f[i] : i \in DOMAIN f}

\* mutant: the concatenation is kept as it is
uniqueKeepsAll(sq) == sq

\* np.unique(np.concatenate(...)): sorted, without duplicates
unique(sq) == SortedSeq(Range(sq))

\* ------------------------------------------------------------------------
\* BackboneRotator
\* ------------------------------------------------------------------------

\* selections += [psi_sel, phi_sel]; likewise the aligners and the origins
RECURSIVE PsiPhi(_, _, _)
PsiPhi(angles, psi, phi) ==
    IF angles = <<>> THEN <<>>
    ELSE <<Head(angles)[psi], Head(angles)[phi]>> \o PsiPhi(Tail(angles), psi, phi)

\* self._atoms_to_rotate: the i-th entry is the sorted union of the first i
\* selections
RECURSIVE Cumulative(_, _)
Cumulative(selections, sofar) ==
    IF selections = <<>> THEN <<>>
    ELSE LET u == unique(sofar \o Head(selections))
         IN  <<u>> \o Cumulative(Tail(selections), sofar \o u)

\* BackboneRotator.__init__(segment); angles is what
\* segment.get_psi_phi_angles() yields, one record per residue
BackboneInit(segcoor, nres, angles) ==
    LET axes == PsiPhi(angles, "psi_axis", "phi_axis")
    IN  [ndofs |-> 2 * nres,
         starting_coor |-> coor_get(segcoor),
         aligners |-> [i \in DOMAIN axes |-> ZAxisAligner(axes[i])],
         origins |-> PsiPhi(angles, "psi_origin", "phi_origin"),
         atoms_to_rotate |-> Cumulative(PsiPhi(angles, "psi_sel", "phi_sel"), <<>>)]

Min(m, n) == IF m <= n THEN m ELSE n

\* np.dot(xyz - origin, R.T) + origin: every row v becomes R (v - origin) + origin
RotateAbout(R, xyz, origin) ==
    [k \in DOMAIN xyz |-> VAdd(MatVec(R, VSub(xyz[k], origin)), origin)]

\* one iteration of the loop of __call__: the rotation about the origin
BackboneRotation(r, c, torsion, i) ==
    LET R == MatMul(MatMul(r.aligners[i].forward_rotation, Rz(torsion)),
                    r.aligners[i].backward_rotation)
    IN  set_xyz(c, RotateAbout(R, get_xyz(c, r.atoms_to_rotate[i]), r.origins[i]),
                r.atoms_to_rotate[i])

\* mutant: the zero test is missing and every torsion is applied
SkipsNoTorsion(torsion) == FALSE

\* if torsion == 0.0: continue
SkipsTorsion(torsion) == torsion = 0

\* the loop over zip(torsions, origins, aligners, atoms_to_rotate), from
\* entry i on; s counts the set_xyz calls
RECURSIVE BackboneLoop(_, _, _, _, _)
BackboneLoop(r, torsions, c, i, s) ==
    IF i > Min(Len(torsions), Len(r.origins)) THEN [coor |-> c, nset |-> s]
    ELSE IF SkipsTorsion(torsions[i]) THEN BackboneLoop(r, torsions, c, i + 1, s)
    ELSE BackboneLoop(r, torsions, BackboneRotation(r, c, torsions[i], i), i + 1, s + 1)

\* mutant: the torsions are taken in the order given
ReverseNot(sq) == sq

\* torsions[::-1]
Reverse(sq) == [i \in DOMAIN sq |-> sq[Len(sq) + 1 - i]]

\* mutant: the length of the torsion vector is not checked
BackboneAcceptsAny(r, torsions) == TRUE

\* assert len(torsions) == self.ndofs
BackboneAccepts(r, torsions) == Len(torsions) = r.ndofs

\* mutant: the call goes on from the segment's current coordinates
BackboneStartsFromCurrent(r, c) == c

\* self.segment.coor = self._starting_coor
BackboneStart(r, c) == r.starting_coor

\* BackboneRotator.__call__(torsions) on a segment with coordinates c
BackboneCall(r, c, torsions) ==
    IF ~BackboneAccepts(r, torsions)
    THEN [err |-> "AssertionError", coor |-> c, nset |-> 0]
    ELSE LET t == Reverse([i \in DOMAIN torsions |-> deg2rad(torsions[i])])
             out == BackboneLoop(r, t, BackboneStart(r, c), 1, 0)
         IN  [err |-> "none", coor |-> out.coor, nset |-> out.nset]

\* ------------------------------------------------------------------------
\* Translator
\* ------------------------------------------------------------------------

\* Translator.__init__(ligand)
TranslatorInit(ligcoor) == [coor_to_translate |-> coor_get(ligcoor)]

\* np.asarray(trans): its shape and its entries, kept as a sequence of rows
\* (a scalar and a vector have one row)
Scalar(x) == [shape |-> <<>>, v |-> <<<<x>>>>]

Vector(u) == [shape |-> <<Len(u)>>, v |-> <<u>>]

Matrix(rows) == [shape |-> <<Len(rows), Len(rows[1])>>, v |-> rows]

\* numpy broadcasting of an (N, 3) array with another array: an axis of the
\* other array fits if it has the same length or length 1
Broadcasts(c, a) ==
    CASE Len(a.shape) = 0 -> TRUE
      [] Len(a.shape) = 1 -> a.shape[1] \in {1, 3}
      [] Len(a.shape) = 2 -> a.shape[1] \in {1, Len(c)} /\ a.shape[2] \in {1, 3}

\* the entry of a that is added to entry (i, j) of the (N, 3) array
BroadcastEntry(a, i, j) ==
    a.v[IF Len(a.v) = 1 THEN 1 ELSE i][IF Len(a.v[1]) = 1 THEN 1 ELSE j]

\* c + a for an (N, 3) array c
BroadcastAdd(c, a) ==
    [i \in DOMAIN c |->
        <<Add(c[i][1], BroadcastEntry(a, i, 1)),
          Add(c[i][2], BroadcastEntry(a, i, 2)),
          Add(c[i][3], BroadcastEntry(a, i, 3))>>]

\* mutant: the translation is added to the ligand's current coordinates
TranslatorFromCurrent(t, c) == c

\* self.coor_to_translate, the array the translation is added to
TranslatorBase(t, c) == t.coor_to_translate

\* Translator.__call__(trans) on a ligand with coordinates c
TranslatorCall(t, c, trans) ==
    IF Broadcasts(TranslatorBase(t, c), trans)
    THEN [err |-> "none", coor |-> coor_set(c, BroadcastAdd(TranslatorBase(t, c), trans))]
    ELSE [err |-> "ValueError", coor |-> c]

\* ------------------------------------------------------------------------
\* GlobalRotator
\* ------------------------------------------------------------------------

\* x / n for a whole number n of atoms (exact on the model's geometries)
DivInt(x, n) ==
    CHOOSE q \in {<<x[1] \div n, x[2] \div n, x[3]>>} : Mul(q, I(n)) = x

RECURSIVE SumRows(_)
SumRows(c) == IF c = <<>> THEN V(0, 0, 0) ELSE VAdd(Head(c), SumRows(Tail(c)))

\* ligand_coor.mean(axis=0)
Mean(c) ==
    <<DivInt(SumRows(c)[1], Len(c)), DivInt(SumRows(c)[2], Len(c)),
      DivInt(SumRows(c)[3], Len(c))>>

\* mutant: the caller's center is ignored
GlobalCentroidOnly(c, center) == Mean(c)

\* self._center: the caller's center, or the centroid when there is none
GlobalCenter(c, center) == IF center = None THEN Mean(c) ELSE center

\* GlobalRotator.__init__(ligand, center)
GlobalRotatorInit(ligcoor, center) ==
    [center |-> GlobalCenter(ligcoor, center),
     coor_to_rotate |-> [i \in DOMAIN ligcoor |-> VSub(ligcoor[i], GlobalCenter(ligcoor, center))]]

\* GlobalRotator.__call__(rotmat)
GlobalRotatorCall(g, c, rotmat) ==
    [err |-> "none",
     coor |-> coor_set(c, [i \in DOMAIN g.coor_to_rotate |->
                              VAdd(MatVec(rotmat, g.coor_to_rotate[i]), g.center)])]

\* ------------------------------------------------------------------------
\* Residues: selection by atom name, rotamer metadata, torsion frames
\* ------------------------------------------------------------------------

\* residue.select("name", values): the indices, ascending, of the atoms whose
\* name is one of the values
select(names, values) == SortedSeq({i \in DOMAIN names : names[i] \in values})

\* residue.select("name", values, "!="): those whose name is none of the values
select_not(names, values) == SortedSeq({i \in DOMAIN names : names[i] \notin values})

\* residue.get_named_atom_selection(atoms): the index of each named atom, in
\* the order of the names
get_named_atom_selection(names, atoms) ==
    [k \in DOMAIN atoms |-> CHOOSE i \in DOMAIN names : names[i] = atoms[k]]

\* residue.get_residue_info("chi")[chi_index]: the atoms that define the torsion
ChiAtoms(chi_index) ==
    IF chi_index = 1 THEN <<"N", "CA", "CB", "CG">> ELSE <<"CA", "CB", "CG", "CD">>

\* residue.get_residue_info("chi-rotate")[chi_index]: the atoms the torsion moves
ChiRotate(chi_index) == IF chi_index = 1 THEN <<"CG", "CD">> ELSE <<"CD">>

\* qfit.structure.math.gram_schmidt_orthonormal_zx on points centred on
\* the second one: the Z axis along the third point, the X axis along the
\* first point made orthogonal to Z, Y = Z x X; the rows of the matrix are
\* X, Y, Z.  Collinear points have no frame.
gram_schmidt_orthonormal_zx(xyz) ==
    LET zaxis == VScale(xyz[3], Inv(Norm(xyz[3])))
        xraw == VSub(xyz[1], VScale(zaxis, Dot(xyz[1], zaxis)))
    IN  IF Norm(xraw) = Zero THEN Raised("GeometryError")
        ELSE LET xaxis == VScale(xraw, Inv(Norm(xraw)))
             IN  [ok |-> TRUE, matrix |-> <<xaxis, Cross(zaxis, xaxis), zaxis>>]

\* ------------------------------------------------------------------------
\* ChiRotator
\* ------------------------------------------------------------------------

\* covalent=None
NoName == "None"

\* self._atom_selection: the chi-rotate atoms and, when the covalently
\* bonded atom is one of them, the atoms from position length on
ChiSelection(names, chi_index, covalent, length) ==
    IF covalent \in Range(ChiRotate(chi_index))
    THEN select(names, Range(ChiRotate(chi_index)))
           \o select(names, Range(SubSeq(names, length + 1, Len(names))))
    ELSE select(names, Range(ChiRotate(chi_index)))

\* mutant: the forward rotation is the frame itself, not its transpose
ChiForwardNotTransposed(backward) == backward

\* self._forward = self._backward.T.copy()
ChiForward(backward) == Transpose(backward)

\* every row v of xyz becomes M (v - origin)
IntoFrame(M, xyz, origin) == [k \in DOMAIN xyz |-> MatVec(M, VSub(xyz[k], origin))]

\* every row v of local becomes M v + origin
OutOfFrame(M, local, origin) == [k \in DOMAIN local |-> VAdd(MatVec(M, local[k]), origin)]

\* ChiRotator.__init__(residue, chi_index, covalent, length)
ChiInit(names, c, chi_index, covalent, length) ==
    LET torsion == get_xyz(c, get_named_atom_selection(names, ChiAtoms(chi_index)))
        origin == torsion[2]
        frame == gram_schmidt_orthonormal_zx([k \in DOMAIN torsion |-> VSub(torsion[k], origin)])
        sel == ChiSelection(names, chi_index, covalent, length)
    IN  IF ~frame.ok THEN frame
        ELSE [ok |-> TRUE,
              origin |-> origin,
              backward |-> frame.matrix,
              forward |-> ChiForward(frame.matrix),
              atom_selection |-> sel,
              coor_to_rotate |-> IntoFrame(frame.matrix, get_xyz(c, sel), origin)]

\* ChiRotator.__call__(angle) on a residue with coordinates c
ChiCall(r, c, angle) ==
    LET R == MatMul(r.forward, Rz(deg2rad(angle)))
    IN  [err |-> "none",
         coor |-> set_xyz(c, OutOfFrame(R, r.coor_to_rotate, r.origin), r.atom_selection)]

\* ------------------------------------------------------------------------
\* CBAngleRotator and BisectingAngleRotator
\* ------------------------------------------------------------------------

\* residue.extract("name", values).coor: the rows of the selected atoms
extract(names, c, values) == get_xyz(c, select(names, values))

\* x / np.linalg.norm(x): a zero vector divides to NaN
Normalised(x) == IF Norm(x) = Zero THEN NaN ELSE VScale(x, Inv(Norm(x)))

\* mutant: the exclusion list without HB2
CBExcludedNoHB2 == {"N", "CA", "C", "O", "CB", "H", "HA", "HB3"}

\* the names CBAngleRotator never moves
CBExcluded == {"N", "CA", "C", "O", "CB", "H", "HA", "HB2", "HB3"}

\* the names BisectingAngleRotator never moves
BisectingExcluded == {"N", "CA", "C", "O", "CB", "H", "HA", "HB2", "HB3"}

\* the unit normal of the CA-CB-CG plane
CBAxis(axis_coor) == Normalised(Cross(axis_coor[1], axis_coor[2]))

\* the unit bisector of the CA-CB-CG angle
BisectingAxis(axis_coor) ==
    LET vec_CA == Normalised(axis_coor[1])
        vec_CG == Normalised(axis_coor[2])
    IN  IF vec_CA = NaN \/ vec_CG = NaN THEN NaN
        ELSE Normalised(VAdd(vec_CA, vec_CG))

\* the rows of xyz minus origin
Centred(xyz, origin) == [k \in DOMAIN xyz |-> VSub(xyz[k], origin)]

\* CBAngleRotator.__init__(residue)
CBAngleInit(names, c) ==
    IF Len(select(names, {"CA", "CB", "CG"})) # 3 THEN Raised("RuntimeError")
    ELSE IF Len(extract(names, c, {"CB"})) = 0 THEN Raised("IndexError")
    ELSE IF Len(extract(names, c, {"CA", "CG"})) < 2 THEN Raised("IndexError")
    ELSE LET origin == extract(names, c, {"CB"})[1]
             atoms == select_not(names, CBExcluded)
             axis_coor == Centred(extract(names, c, {"CA", "CG"}), origin)
             aligner == ZAxisAligner(CBAxis(axis_coor))
         IN  IF ~aligner.ok THEN aligner
             ELSE [ok |-> TRUE,
                   atoms_to_rotate |-> atoms,
                   origin |-> origin,
                   forward |-> aligner.forward_rotation,
                   coor_to_rotate |->
                       IntoFrame(aligner.backward_rotation, get_xyz(c, atoms), origin)]

\* CBAngleRotator.__call__(angle) on a residue with coordinates c
CBAngleCall(r, c, angle) ==
    LET rot_mat == MatMul(r.forward, Rz(deg2rad(angle)))
    IN  set_xyz(c, OutOfFrame(rot_mat, r.coor_to_rotate, r.origin), r.atoms_to_rotate)

\* BisectingAngleRotator.__init__(residue)
BisectingAngleInit(names, c) ==
    IF Len(select(names, {"CA", "CB", "CG"})) # 3 THEN Raised("RuntimeError")
    ELSE IF Len(extract(names, c, {"CB"})) = 0 THEN Raised("IndexError")
    ELSE IF Len(extract(names, c, {"CA", "CG"})) < 2 THEN Raised("IndexError")
    ELSE LET origin == extract(names, c, {"CB"})[1]
             atoms == select_not(names, BisectingExcluded)
             axis_coor == Centred(extract(names, c, {"CA", "CG"}), origin)
             aligner == ZAxisAligner(BisectingAxis(axis_coor))
         IN  IF ~aligner.ok THEN aligner
             ELSE [ok |-> TRUE,
                   atoms_to_rotate |-> atoms,
                   origin |-> origin,
                   forward |-> aligner.forward_rotation,
                   coor_to_rotate |->
                       IntoFrame(aligner.backward_rotation, get_xyz(c, atoms), origin)]

\* BisectingAngleRotator.__call__(angle) on a residue with coordinates c
BisectingAngleCall(r, c, angle) ==
    LET R == MatMul(r.forward, Rz(deg2rad(angle)))
    IN  set_xyz(c, OutOfFrame(R, r.coor_to_rotate, r.origin), r.atoms_to_rotate)

\* ------------------------------------------------------------------------
\* BondRotator
\* ------------------------------------------------------------------------

\* atom_names.index(a): the first atom with that name
index(names, a) ==
    CHOOSE i \in DOMAIN names :
        names[i] = a /\ \A j \in DOMAIN names : names[j] = a => i <= j

\* np.flatnonzero(row): the positions of the non-zero entries, ascending
flatnonzero(row) == SortedSeq({j \in DOMAIN row : row[j] # 0})

RECURSIVE find_neighbours_recursively(_, _, _, _)
\* mutant: a bond back to the root is not counted
FoundRootNever(b, root, n) == n

\* if b == self._root: self._foundroot += 1
FoundRoot(b, root, n) == IF b = root THEN n + 1 ELSE n

\* mutant: the root is not counted among the atoms collected
NotCollectedPastRoot(b, atoms) == b \notin Range(Tail(atoms))

\* b not in self.atoms_to_rotate
NotCollected(b, atoms) == b \notin Range(atoms)

RECURSIVE ScanBonds(_, _, _, _, _)
\* the loop over the bonds of one atom: a bond back to the root is counted,
\* an atom not yet collected is visited
ScanBonds(adj, root, st, bonds, k) ==
    IF k > Len(bonds) THEN st
    ELSE LET b == bonds[k]
             counted == [atoms |-> st.atoms,
                         foundroot |-> FoundRoot(b, root, st.foundroot)]
             visited == IF NotCollected(b, counted.atoms)
                        THEN find_neighbours_recursively(adj, root, counted, b)
                        ELSE counted
         IN  ScanBonds(adj, root, visited, bonds, k + 1)

\* BondRotator._find_neighbours_recursively(curr)
find_neighbours_recursively(adj, root, st, curr) ==
    ScanBonds(adj, root,
              [atoms |-> Append(st.atoms, curr), foundroot |-> st.foundroot],
              flatnonzero(adj[curr]), 1)

\* the bond vector divided by the norm of its x and y components
BondAxis(v) ==
    IF Norm(<<v[1], v[2]>>) = Zero THEN NaN
    ELSE VScale(v, Inv(Norm(<<v[1], v[2]>>)))

\* BondRotator.__init__(ligand, a1, a2)
BondInit(names, c, adj, a1, a2) ==
    LET root == index(names, a1)
        found == find_neighbours_recursively(adj, root,
                     [atoms |-> <<root>>, foundroot |-> 0], index(names, a2))
        t == coor_get(c)[root]
        local == Centred(get_xyz(coor_get(c), found.atoms), t)
        aligner == ZAxisAligner(BondAxis(local[2]))
    IN  IF ~aligner.ok THEN aligner
        ELSE [ok |-> TRUE,
              root |-> root,
              atoms_to_rotate |-> found.atoms,
              foundroot |-> found.foundroot,
              t |-> t,
              forward |-> aligner.forward_rotation,
              coor_to_rotate |-> IntoFrame(aligner.backward_rotation, local, V(0, 0, 0))]

\* mutant: the rotated atoms are not moved back to the root
BondNoTranslation(r) == V(0, 0, 0)

\* the translation added to the rotated atoms
BondTranslation(r) == r.t

\* mutant: the call assigns the new array to the ligand
BondWritesInPlace(c, returned) == returned

\* the ligand's coordinates after a call: the new array is built on a deep
\* copy and returned, the ligand is not assigned
BondLigandAfter(c, returned) == c

\* BondRotator.__call__(angle), angle in radians, on a ligand with
\* coordinates c: the returned array
BondCall(r, c, angle) ==
    LET R == MatMul(r.forward, Rz(angle))
        rotated == OutOfFrame(R, r.coor_to_rotate, BondTranslation(r))
    IN  set_xyz(coor_get(c), rotated, r.atoms_to_rotate)

\* ------------------------------------------------------------------------
\* RotationSets
\* ------------------------------------------------------------------------

\* x ** 2
Square(x) == Mul(x, x)

\* np.asarray([1, 0, 0, 0]): the identity quaternion
QuatIdentity == <<One, Zero, Zero, Zero>>

\* the loops of random_rotation end when the squared norm is below 1
AcceptsPair(sq) == Less(sq, One)

\* the quaternion random_rotation builds from two accepted pairs.  With
\* s2 = 0 the quotient (1 - s1) / s2 is inf, and e3 * inf = e4 * inf = 0 * inf
\* is nan.
RandomQuat(e1, e2, e3, e4) ==
    LET s1 == Add(Square(e1), Square(e2))
        s2 == Add(Square(e3), Square(e4))
    IN  IF s2 = Zero THEN <<e1, e2, NaN, NaN>>
        ELSE LET root == Sqrt(Div(Sub(One, s1), s2))
             IN  <<e1, e2, Mul(e3, root), Mul(e4, root)>>

\* angle = 2 * np.arccos(quat[0]), in eighths of a turn
QuatAngle(quat) == 2 * arccos(quat[1])

\* mutant: every sample is kept
KeepsAnyAngle(quat, max_angle) == TRUE

\* RotationSets.local keeps a sample whose angle is within the bound
KeepsAngle(quat, max_angle) == QuatAngle(quat) <= deg2rad(max_angle)

\* mutant: the loop of RotationSets.local runs until nrots samples are kept
SamplesWantedAll(nrots) == nrots

\* the loop of RotationSets.local runs while len(quats) < nrots - 1
SamplesWanted(nrots) == nrots - 1

\* ndarray.round(decimals=8): a number with at most eight binary places and
\* no irrational part has at most eight decimals and is kept; any other
\* number is replaced by its nearest neighbour with eight decimals
Round8(x) ==
    IF x = NaN THEN NaN
    ELSE IF x[2] = 0 /\ x[3] <= 8 THEN x
    ELSE [nearest |-> x, decimals |-> 8]

\* one matrix of the array quats_to_rotmats returns
QuatToRotmat(q) ==
    IF NaN \in Range(q) THEN <<<<NaN, NaN, NaN>>, <<NaN, NaN, NaN>>, <<NaN, NaN, NaN>>>>
    ELSE
      LET w == q[1]
          x == q[2]
          y == q[3]
          z == q[4]
          Nq == Add(Add(Square(w), Square(x)), Add(Square(y), Square(z)))
          s == Div(One, Nq)
          X == Mul(Mul(x, s), I(2))
          Y == Mul(Mul(y, s), I(2))
          Z == Mul(Mul(z, s), I(2))
      IN  << <<Round8(Sub(One, Add(Mul(y, Y), Mul(z, Z)))),
               Round8(Sub(Mul(x, Y), Mul(w, Z))),
               Round8(Add(Mul(x, Z), Mul(w, Y)))>>,
             <<Round8(Add(Mul(x, Y), Mul(w, Z))),
               Round8(Sub(One, Add(Mul(x, X), Mul(z, Z)))),
               Round8(Sub(Mul(y, Z), Mul(w, X)))>>,
             <<Round8(Sub(Mul(x, Z), Mul(w, Y))),
               Round8(Add(Mul(y, Z), Mul(w, X))),
               Round8(Sub(One, Add(Mul(x, X), Mul(y, Y))))>> >>

\* RotationSets.quats_to_rotmats(quaternions): one matrix per row, in order
quats_to_rotmats(quaternions) ==
    [i \in DOMAIN quaternions |-> QuatToRotmat(quaternions[i])]

\* ------------------------------------------------------------------------
\* mmCIFFile, mmCIFData, mmCIFTable: containers with case-blind names
\*
\* Objects are compared by identity (__eq__ is id(self) == id(other)).  The
\* store st keeps every object made so far: st.blocks[b] is the mmCIFData
\* with identity b (its name and the identities of its tables, in order),
\* st.tables[t] the mmCIFTable with identity t (its name and its data
\* attribute, 0 when the attribute is not set), st.file the identities of
\* the data blocks of the mmCIFFile, in order.
\* ------------------------------------------------------------------------

\* str.lower() on the names used
Lower(n) ==
    CASE n = "ATOM_SITE" -> "atom_site"
      [] n = "Atom_Site" -> "atom_site"
      [] n = "CELL" -> "cell"
      [] n = "1ABC" -> "1abc"
      [] OTHER -> n

\* mutant: names compared as written
NameIsExactly(item_name, x) == item_name = x

\* ctable.name.lower() == x.lower()
NameIs(item_name, x) == Lower(item_name) = Lower(x)

\* container[x] for a string x: the position of the first item of that
\* name, 0 for KeyError
FirstNamed(items, objects, x) ==
    IF \E p \in DOMAIN items : NameIs(objects[items[p]].name, x)
    THEN CHOOSE p \in DOMAIN items :
           /\ NameIs(objects[items[p]].name, x)
           /\ \A q \in 1..(p - 1) : ~NameIs(objects[items[q]].name, x)
    ELSE 0

\* list.remove of the item at position p
RemoveAt(items, p) == SubSeq(items, 1, p - 1) \o SubSeq(items, p + 1, Len(items))

\* list.insert(i, x): i counts from 0, from the end when negative, and is
\* clamped to the list
ListInsert(items, i, x) ==
    LET at == IF i < 0 THEN (IF Len(items) + i < 0 THEN 0 ELSE Len(items) + i)
              ELSE (IF i > Len(items) THEN Len(items) ELSE i)
    IN  SubSeq(items, 1, at) \o <<x>> \o SubSeq(items, at + 1, Len(items))

Outcome(e, st) == [err |-> e, st |-> st]

\* mmCIFData.__delitem__(x) and mmCIFData.remove on the block b
DataDelItem(st, b, x) ==
    LET p == FirstNamed(st.blocks[b].tables, st.tables, x)
    IN  IF p = 0 THEN Outcome("KeyError", st)
        ELSE LET t == st.blocks[b].tables[p]
             IN  IF st.tables[t].data = 0 THEN Outcome("AttributeError", st)
                 ELSE Outcome("none",
                        [st EXCEPT !.tables[t].data = 0,
                                   !.blocks[b].tables = RemoveAt(@, p)])

\* mmCIFData.append(table) on the block b
DataAppend(st, b, t) ==
    LET removed == DataDelItem(st, b, st.tables[t].name)
    IN  IF removed.err = "AttributeError" THEN removed
        ELSE Outcome("none",
               [removed.st EXCEPT !.tables[t].data = b,
                                  !.blocks[b].tables = Append(@, t)])

\* mmCIFData.insert(i, table) on the block b
DataInsert(st, b, i, t) ==
    LET removed == DataDelItem(st, b, st.tables[t].name)
    IN  IF removed.err = "AttributeError" THEN removed
        ELSE Outcome("none",
               [removed.st EXCEPT !.tables[t].data = b,
                                  !.blocks[b].tables = ListInsert(@, i, t)])

\* list[i] for an integer i: the position, counted from 1, of the item, 0
\* for IndexError
ListIndex(items, i) ==
    IF i < 0 THEN (IF Len(items) + i < 0 THEN 0 ELSE Len(items) + i + 1)
    ELSE (IF i >= Len(items) THEN 0 ELSE i + 1)

\* list.remove(x): the first item equal to x leaves the list
ListRemove(items, x) ==
    RemoveAt(items, CHOOSE p \in DOMAIN items :
                      items[p] = x /\ \A q \in 1..(p - 1) : items[q] # x)

\* mmCIFData.__setitem__(i, table) on the block b, for an integer i: the
\* old table is taken out with remove, then the list is assigned at i
DataSetItem(st, b, i, t) ==
    LET p == ListIndex(st.blocks[b].tables, i)
    IN  IF p = 0 THEN Outcome("IndexError", st)
        ELSE LET old == st.blocks[b].tables[p]
                 left == ListRemove(st.blocks[b].tables, old)
                 removed == [st EXCEPT !.tables[old].data = 0,
                                       !.blocks[b].tables = left]
                 owned == [removed EXCEPT !.tables[t].data = b]
                 at == ListIndex(left, i)
             IN  IF st.tables[old].data = 0 THEN Outcome("AttributeError", st)
                 ELSE IF at = 0 THEN Outcome("IndexError", owned)
                 ELSE Outcome("none",
                        [owned EXCEPT !.blocks[b].tables = [@ EXCEPT ![at] = t]])

\* mmCIFTable(name)
NewTableObject(st, n) == [st EXCEPT !.tables = Append(@, [name |-> n, data |-> 0])]

\* mmCIFData.new_table(name) on the block b
new_table(st, b, n) ==
    LET made == DataAppend(NewTableObject(st, n), b, Len(st.tables) + 1)
    IN  IF made.err = "none" THEN made ELSE Outcome(made.err, st)

\* mmCIFFile.__delitem__(x)
FileDelItem(st, x) ==
    LET p == FirstNamed(st.file, st.blocks, x)
    IN  IF p = 0 THEN Outcome("KeyError", st)
        ELSE Outcome("none", [st EXCEPT !.file = RemoveAt(@, p)])

\* mmCIFFile.append(cdata)
FileAppend(st, b) ==
    Outcome("none", [FileDelItem(st, st.blocks[b].name).st EXCEPT !.file = Append(@, b)])

\* mmCIFFile.insert(i, cdata)
FileInsert(st, i, b) ==
    Outcome("none", [FileDelItem(st, st.blocks[b].name).st EXCEPT !.file = ListInsert(@, i, b)])

\* mmCIFData(name)
NewDataObject(st, n) == [st EXCEPT !.blocks = Append(@, [name |-> n, tables |-> <<>>])]

\* mmCIFFile.new_data(name)
new_data(st, n) == FileAppend(NewDataObject(st, n), Len(st.blocks) + 1)

\* ------------------------------------------------------------------------
\* mmCIFFileParser
\*
\* A token is the 4-tuple the tokenizer yields: (tblx, colx, strx, tokx),
\* with NoName for None.  The state p of a running parse holds the tokens of
\* the file, the number already taken (pos), the current token (cur), the
\* local variables of parse, the store of the objects made, and for each
\* table its columns and its rows (a row is a sequence of <<column, value>>).
\* ------------------------------------------------------------------------

NoToken == [tblx |-> NoName, colx |-> NoName, strx |-> NoName, tokx |-> NoName]

\* _section.subsection
Item(t, col) == [tblx |-> t, colx |-> col, strx |-> NoName, tokx |-> NoName]

\* an unquoted token
Word(w) == [tblx |-> NoName, colx |-> NoName, strx |-> NoName, tokx |-> w]

\* a quoted string
Quoted(q) == [tblx |-> NoName, colx |-> NoName, strx |-> q, tokx |-> NoName]

\* mmCIFFileParser.split_token(tokx) on the words used: <<rword, name>>
split_token(tokx) ==
    CASE tokx = "data_1abc" -> <<"data", "1abc">>
      [] tokx = "data_1ABC" -> <<"data", "1ABC">>
      [] tokx = "DATA_2xyz" -> <<"data", "2xyz">>
      [] tokx = "save_frame" -> <<"save", "frame">>
      [] tokx = "loop_" -> <<"loop", "">>
      [] tokx = "stop_" -> <<"stop", "">>
      [] tokx = "global_" -> <<"global", "">>
      [] OTHER -> <<NoName, NoName>>

RECURSIVE Tokens(_)
\* the tokens gen_token_iter yields for the lines of a file: a line that
\* starts with # is skipped, the others give their tokens in order
Tokens(lines) ==
    IF lines = <<>> THEN <<>>
    ELSE (IF Head(lines).comment THEN <<>> ELSE Head(lines).toks) \o Tokens(Tail(lines))

\* next(file_iter) raises StopIteration inside gen_token_iter once the
\* lines are exhausted.  An interpreter with PEP 479 (Python 3.7 and later)
\* turns it into RuntimeError; an older one lets it end the generator, and
\* parse_file catches the StopIteration and returns.
Exhausted(p) ==
    [p EXCEPT !.pc = "ended",
              !.outcome = IF p.pep479 THEN "RuntimeError" ELSE "returned"]

\* parse returns: parse_file raises mmCIFError
ParseReturns(p) == [p EXCEPT !.pc = "ended", !.outcome = "mmCIFError"]

\* mmCIFFileParser.syntax_error
syntax_error(p) == [p EXCEPT !.pc = "ended", !.outcome = "mmCIFSyntaxError"]

\* tblx, colx, strx, tokx = next(token_iter)
NextToken(p) ==
    IF p.pos < Len(p.tokens)
    THEN [p EXCEPT !.pos = @ + 1, !.cur = p.tokens[p.pos + 1]]
    ELSE Exhausted(p)

\* PROCESS STATE CHANGES
StateChange(p) ==
    IF p.cur.tblx # NoName THEN [p EXCEPT !.state = "RD_SINGLE"]
    ELSE IF p.cur.tokx # NoName
    THEN LET rword == split_token(p.cur.tokx)[1]
         IN  CASE rword = "loop" -> [p EXCEPT !.state = "RD_LOOP"]
               [] rword = "data" -> [p EXCEPT !.state = "RD_DATA"]
               [] rword = "save" -> [p EXCEPT !.state = "RD_SAVE"]
               [] rword = "stop" -> ParseReturns(p)
               [] OTHER -> syntax_error(p)
    ELSE syntax_error(p)

\* mmCIFTable.append_column(column)
append_column(cols, column) ==
    IF \E i \in DOMAIN cols : Lower(cols[i]) = Lower(column)
    THEN [i \in DOMAIN cols |-> IF Lower(cols[i]) = Lower(column) THEN column ELSE cols[i]]
    ELSE Append(cols, column)

\* mmCIFRow.__setitem__(column, value)
RowSet(row, column, value) ==
    IF \E i \in DOMAIN row : row[i][1] = Lower(column)
    THEN [i \in DOMAIN row |-> IF row[i][1] = Lower(column) THEN <<Lower(column), value>> ELSE row[i]]
    ELSE Append(row, <<Lower(column), value>>)

\* cif_table = mmCIFTable(tblx); cif_data.append(cif_table): None has no
\* append, which the parser reports as a syntax error
AddTable(p, tblx) ==
    IF p.cif_data = 0 THEN syntax_error(p)
    ELSE LET made == DataAppend(NewTableObject(p.st, tblx), p.cif_data, Len(p.st.tables) + 1)
         IN  IF made.err # "none" THEN syntax_error(p)
             ELSE [p EXCEPT !.st = made.st,
                            !.cif_table = Len(p.st.tables) + 1,
                            !.columns = Append(@, <<>>),
                            !.rows = Append(@, <<>>)]

\* cif_data = mmCIFData(tokx[5:]); cif_file.append(cif_data), and the
\* same with mmCIFSave
AddData(p) ==
    LET made == new_data(p.st, split_token(p.cur.tokx)[2])
    IN  [p EXCEPT !.st = made.st,
                  !.cif_data = Len(p.st.blocks) + 1,
                  !.cache = {},
                  !.cif_table = 0]

\* RD_SINGLE: the table of the item, from the cache or made and added to
\* the data block with one empty row
SingleTable(p) ==
    LET tblx == p.cur.tblx
        cached == {e \in p.cache : e[1] = tblx}
    IN  IF cached = {}
        THEN LET added == AddTable(p, tblx)
             IN  IF added.pc = "ended" THEN added
                 ELSE [added EXCEPT !.cache = @ \cup {<<tblx, added.cif_table>>},
                                    !.rows[added.cif_table] = << <<>> >>]
        ELSE LET t == (CHOOSE e \in cached : TRUE)[2]
             IN  IF p.rows[t] = <<>> THEN syntax_error(p) ELSE [p EXCEPT !.cif_table = t]

\* RD_SINGLE: a column already defined is a syntax error
SingleColumn(p, colx) ==
    IF p.pc = "ended" THEN p
    ELSE IF colx \in Range(p.columns[p.cif_table]) THEN syntax_error(p)
    ELSE [p EXCEPT !.columns[p.cif_table] = append_column(@, colx)]

\* RD_SINGLE: the token after the item is its value
SingleValue(p, colx) ==
    IF p.pc = "ended" THEN p
    ELSE LET q == NextToken(p)
             v == q.cur
         IN  IF q.pc = "ended" THEN q
             ELSE IF v.tblx # NoName \/ (v.strx = NoName /\ v.tokx = NoName)
             THEN syntax_error(q)
             ELSE IF v.tokx # NoName
             THEN (IF split_token(v.tokx)[1] # NoName
                   THEN (IF split_token(v.tokx)[1] = "stop"
                         THEN ParseReturns(q) ELSE syntax_error(q))
                   ELSE IF v.tokx # "."
                   THEN [q EXCEPT !.rows[q.cif_table][1] = RowSet(@, colx, v.tokx)]
                   ELSE q)
             ELSE [q EXCEPT !.rows[q.cif_table][1] = RowSet(@, colx, v.strx)]

\* the step of the main loop that ends by taking the next token
ThenNext(p) == IF p.pc = "ended" THEN p ELSE [NextToken(p) EXCEPT !.pc = IF @ = "ended" THEN @ ELSE "main"]

\* PROCESS DATA IN RD_SINGLE STATE
ReadSingle(p) == ThenNext(SingleValue(SingleColumn(SingleTable(p), p.cur.colx), p.cur.colx))

\* RD_DATA and RD_SAVE
ReadData(p) == ThenNext(AddData(p))

\* RD_LOOP: the first item names the table of the loop
LoopFirst(p) ==
    LET q == NextToken(p)
    IN  IF q.pc = "ended" THEN q
        ELSE IF q.cur.tblx = NoName \/ q.cur.colx = NoName THEN syntax_error(q)
        ELSE IF \E e \in q.cache : e[1] = q.cur.tblx THEN syntax_error(q)
        ELSE LET added == AddTable(q, q.cur.tblx)
             IN  IF added.pc = "ended" THEN added
                 ELSE [added EXCEPT !.columns[added.cif_table] = append_column(@, q.cur.colx),
                                    !.pc = "loop_cols"]

\* RD_LOOP: one more item of the loop, or the first token after the items
LoopColumn(p) ==
    LET q == NextToken(p)
    IN  IF q.pc = "ended" THEN q
        ELSE IF q.cur.tblx = NoName
        THEN (IF q.cur.tokx # NoName /\ split_token(q.cur.tokx)[1] # NoName
              THEN (IF split_token(q.cur.tokx)[1] = "stop"
                    THEN ParseReturns(q) ELSE syntax_error(q))
              ELSE [q EXCEPT !.pc = "loop_rows"])
        ELSE IF q.cur.tblx # q.st.tables[q.cif_table].name THEN syntax_error(q)
        ELSE [q EXCEPT !.columns[q.cif_table] = append_column(@, q.cur.colx)]

RECURSIVE FillRow(_, _)
\* for col in cif_table.columns: the current token is the value of the
\* column, then the next token is taken
FillRow(p, k) ==
    IF k > Len(p.columns[p.cif_table]) THEN p
    ELSE LET col == p.columns[p.cif_table][k]
             r == Len(p.rows[p.cif_table])
             set == IF p.cur.tokx # NoName
                    THEN (IF p.cur.tokx # "."
                          THEN [p EXCEPT !.rows[p.cif_table][r] = RowSet(@, col, p.cur.tokx)]
                          ELSE p)
                    ELSE IF p.cur.strx # NoName
                    THEN [p EXCEPT !.rows[p.cif_table][r] = RowSet(@, col, p.cur.strx)]
                    ELSE p
             q == NextToken(set)
         IN  IF q.pc = "ended" THEN q ELSE FillRow(q, k + 1)

\* RD_LOOP: one row of the loop; the loop ends at an item or a reserved word
LoopRow(p) ==
    LET q == FillRow([p EXCEPT !.rows[p.cif_table] = Append(@, <<>>)], 1)
    IN  IF q.pc = "ended" THEN q
        ELSE IF q.cur.tblx # NoName THEN [q EXCEPT !.pc = "main"]
        ELSE IF q.cur.tokx # NoName /\ split_token(q.cur.tokx)[1] # NoName
        THEN [q EXCEPT !.pc = "main"]
        ELSE q

\* the loop that ignores everything before the first reserved word
SkipToken(p) ==
    LET q == NextToken(p)
    IN  IF q.pc = "ended" THEN q
        ELSE IF q.cur.tokx # NoName /\ split_token(q.cur.tokx)[1] # NoName
        THEN [q EXCEPT !.pc = "main"]
        ELSE q

\* mmCIFFileParser.parse_file(fileobj, cif_file) on entry to parse
parse_file(lines, pep479) ==
    [pc |-> "skip", tokens |-> Tokens(lines), pep479 |-> pep479, pos |-> 0, cur |-> NoToken,
     state |-> "", cif_data |-> 0, cif_table |-> 0, cache |-> {},
     st |-> [file |-> <<>>, blocks |-> <<>>, tables |-> <<>>],
     columns |-> <<>>, rows |-> <<>>, outcome |-> "running"]

\* ------------------------------------------------------------------------
\* mmCIFFileWriter and the tokenizer, on characters
\*
\* A text is a sequence of symbols.  A symbol is one of the characters the
\* writer and the tokenizer look at (space, tab, newline, quote, #, ;, _
\* and .) or a run of other characters.  Chars gives the symbols of the
\* strings used, Str the string of a sequence of symbols.
\* ------------------------------------------------------------------------

\* mmCIF Maximum Line Length
MAX_LINE == 2048

\* self.SPACING
SPACING == 2

\* the characters \s matches
Whitespace == {" ", "\t", "\n"}

\* the characters ['"] matches
Quotes == {"'"}

\* the symbols of a string
Chars(s) ==
    CASE s = "" -> <<>>
      [] s = "a b" -> <<"a", " ", "b">>
      [] s = "#x" -> <<"#", "x">>
      [] s = "a\nb" -> <<"a", "\n", "b">>
      [] s = "x\ny " -> <<"x", "\n", "y", " ">>
      [] s = "x\ny" -> <<"x", "\n", "y">>
      [] s = "a\n;b" -> <<"a", "\n", ";", "b">>
      [] s = "loop_" -> <<"loop", "_">>
      [] s = "stop_" -> <<"stop", "_">>
      [] s = "data_1abc" -> <<"data", "_", "1abc">>
      [] s = "_cell.v" -> <<"_", "cell", ".", "v">>
      [] s = "'abc'" -> <<"'", "abc", "'">>
      [] s = ";x" -> <<";", "x">>
      [] s = "a\tb'\tc" -> <<"a", "\t", "b", "'", "\t", "c">>
      [] s = "a\tb" -> <<"a", "\t", "b">>
      [] s = "c'" -> <<"c", "'">>
      [] s = "\n\n2" -> <<"\n", "\n", "2">>
      [] s = "\n1\n" -> <<"\n", "1", "\n">>
      [] OTHER -> <<s>>

\* the strings the tokens of the texts written spell
Strings ==
    {"", ".", "1", "2", "k", "a", "v", "id", "abc", "cell", "a b", "#x", "a\nb", "x\ny",
     "loop_", "stop_", "data_1abc", ";x", "a\tb", "c'", "\n\n2", "\n1\n"}

\* "".join of the symbols
Str(cs) == CHOOSE s \in Strings : Chars(s) = cs

\* the number of characters of a symbol
SymLen(c) ==
    CASE c = "id" -> 2
      [] c = "abc" -> 3
      [] c \in {"cell", "1abc", "loop", "stop", "data"} -> 4
      [] OTHER -> 1

RECURSIVE CharLen(_)
\* len(x)
CharLen(cs) == IF cs = <<>> THEN 0 ELSE SymLen(Head(cs)) + CharLen(Tail(cs))

\* " " * n
Spaces(n) == [i \in 1..n |-> " "]

\* x.ljust(width)
ljust(cs, width) == cs \o Spaces(IF width > CharLen(cs) THEN width - CharLen(cs) ELSE 0)

\* x.count(c) != 0
Has(cs, c) == \E i \in DOMAIN cs : cs[i] = c

\* x.count(c + d) != 0
HasPair(cs, c, d) == \E i \in 1..(Len(cs) - 1) : cs[i] = c /\ cs[i + 1] = d

RECURSIVE Concat(_)
\* "".join(l)
Concat(l) == IF l = <<>> THEN <<>> ELSE Head(l) \o Concat(Tail(l))

RECURSIVE Split(_, _)
\* x.split(sep)
Split(cs, sep) ==
    IF ~Has(cs, sep) THEN <<cs>>
    ELSE LET i == CHOOSE j \in DOMAIN cs : cs[j] = sep /\ \A q \in 1..(j - 1) : cs[q] # sep
         IN  <<SubSeq(cs, 1, i - 1)>> \o Split(SubSeq(cs, i + 1, Len(cs)), sep)

\* mmCIFFileWriter.form_mstring(mstring); the lines written here are
\* shorter than MAX_LINE - 2, so each is one piece
form_mstring(cs) ==
    LET segs == Split(cs, "\n")
    IN  <<";">>
        \o Concat([k \in DOMAIN segs |->
                     IF segs[k] = <<>> THEN <<"\n">> ELSE segs[k] \o <<"\n">>])
        \o <<";", "\n">>

\* mmCIFFileWriter.data_type(x) for a string x
data_type(x) ==
    LET cs == Chars(x)
    IN  IF x = "" \/ x = "." THEN [x |-> <<".">>, dtype |-> "token"]
        ELSE IF Has(cs, "\n") THEN [x |-> cs, dtype |-> "mstring"]
        ELSE IF Has(cs, " ") \/ Has(cs, "\t") \/ Has(cs, "#")
        THEN (IF CharLen(cs) > MAX_LINE - 2 THEN [x |-> cs, dtype |-> "mstring"]
              ELSE IF HasPair(cs, "'", " ") THEN [x |-> cs, dtype |-> "mstring"]
              ELSE [x |-> cs, dtype |-> "qstring"])
        ELSE IF CharLen(cs) < MAX_LINE THEN [x |-> cs, dtype |-> "token"]
        ELSE [x |-> cs, dtype |-> "mstring"]

\* mmCIFRow: column in row, and row[column]
RowHas(row, column) == \E i \in DOMAIN row : row[i][1] = Lower(column)
RowGet(row, column) == row[CHOOSE i \in DOMAIN row : row[i][1] = Lower(column)][2]

\* the largest number of a set, 0 for the empty set
Largest(S) == IF S = {} THEN 0 ELSE CHOOSE m \in S : \A n \in S : n <= m

\* mmCIFFileWriter.write_one_row_table(cif_table)
write_one_row_table(cif_table) ==
    LET row == cif_table.rows[1]
        table_len == CharLen(Chars(cif_table.name)) + 2
        kmax == Largest({table_len + CharLen(Chars(col)) : col \in Range(cif_table.columns)})
                  + SPACING
        vmax == MAX_LINE - kmax - 1
        item(col) ==
            LET key == ljust(<<"_">> \o Chars(cif_table.name) \o <<".">> \o Chars(col), kmax)
                d == IF RowHas(row, col) THEN data_type(RowGet(row, col))
                     ELSE [x |-> <<"?">>, dtype |-> "token"]
            IN  CASE d.dtype = "token" ->
                       key \o (IF CharLen(d.x) > vmax THEN <<"\n">> ELSE <<>>) \o d.x \o <<"\n">>
                  [] d.dtype = "qstring" ->
                       IF CharLen(d.x) > vmax THEN key \o <<"\n">> \o form_mstring(d.x)
                       ELSE key \o <<"'">> \o d.x \o <<"'", "\n">>
                  [] d.dtype = "mstring" -> key \o <<"\n">> \o form_mstring(d.x)
    IN  Concat([k \in DOMAIN cif_table.columns |-> item(cif_table.columns[k])])

\* write_multi_row_table: the data type of a value and its write length
CellType(row, col) ==
    IF ~RowHas(row, col) THEN [dtype |-> "token", lenx |-> 1]
    ELSE LET d == data_type(RowGet(row, col))
         IN  [dtype |-> d.dtype,
              lenx |-> CASE d.dtype = "token" -> CharLen(d.x)
                         [] d.dtype = "qstring" -> CharLen(d.x) + 2
                         [] OTHER -> 0]

RECURSIVE ColumnScan(_, _, _)
\* write_multi_row_table: col_dtype_map[col] and col_len_map[col] after
\* the first k rows
ColumnScan(rows, col, k) ==
    IF k = 1 THEN CellType(rows[1], col)
    ELSE LET was == ColumnScan(rows, col, k - 1)
             now == CellType(rows[k], col)
         IN  [lenx |-> IF was.lenx < now.lenx THEN now.lenx ELSE was.lenx,
              dtype |-> IF was.dtype = now.dtype THEN was.dtype
                        ELSE IF now.dtype = "mstring" THEN "mstring"
                        ELSE IF was.dtype = "token" /\ now.dtype = "qstring" THEN "qstring"
                        ELSE was.dtype]

RECURSIVE WriteList(_, _, _, _)
\* write_multi_row_table: wlist from column k on; an entry with col
\* NoName is a newline
WriteList(cif_table, types, k, llen) ==
    IF k > Len(cif_table.columns) THEN <<>>
    ELSE LET col == cif_table.columns[k]
             dtype == types[k].dtype
             lenx == types[k].lenx
             line == IF llen = 0 THEN lenx ELSE llen + SPACING + lenx
             newline == [col |-> NoName, dtype |-> NoName, lenx |-> 0]
         IN  IF dtype = "mstring"
             THEN <<newline, [col |-> col, dtype |-> dtype, lenx |-> 0]>>
                  \o WriteList(cif_table, types, k + 1, 0)
             ELSE IF line > MAX_LINE - 1
             THEN <<newline, [col |-> col, dtype |-> dtype, lenx |-> lenx]>>
                  \o WriteList(cif_table, types, k + 1, lenx)
             ELSE <<[col |-> col, dtype |-> dtype, lenx |-> lenx]>>
                  \o WriteList(cif_table, types, k + 1, line)

RECURSIVE WriteRow(_, _, _, _)
\* write_multi_row_table: the text of one row from entry k of wlist on
WriteRow(row, wlist, k, add_space) ==
    IF k > Len(wlist) THEN <<"\n">>
    ELSE LET col == wlist[k].col
             x == IF RowHas(row, col) /\ RowGet(row, col) # "" THEN RowGet(row, col) ELSE "."
             space == IF add_space THEN Spaces(SPACING) ELSE <<>>
         IN  CASE col = NoName -> <<"\n">> \o WriteRow(row, wlist, k + 1, FALSE)
               [] col # NoName /\ wlist[k].dtype = "token" ->
                    space \o ljust(Chars(x), wlist[k].lenx) \o WriteRow(row, wlist, k + 1, TRUE)
               [] col # NoName /\ wlist[k].dtype = "qstring" ->
                    space
                    \o ljust(IF x \in {".", "?"} THEN Chars(x)
                             ELSE <<"'">> \o Chars(x) \o <<"'">>, wlist[k].lenx)
                    \o WriteRow(row, wlist, k + 1, TRUE)
               [] col # NoName /\ wlist[k].dtype = "mstring" ->
                    space
                    \o (IF RowHas(row, col) THEN form_mstring(Chars(RowGet(row, col)))
                        ELSE <<".", "\n">>)
                    \o WriteRow(row, wlist, k + 1, FALSE)

\* mmCIFFileWriter.write_multi_row_table(cif_table)
write_multi_row_table(cif_table) ==
    LET types == [k \in DOMAIN cif_table.columns |->
                    ColumnScan(cif_table.rows, cif_table.columns[k], Len(cif_table.rows))]
        wlist == WriteList(cif_table, types, 1, 0)
    IN  <<"loop", "_", "\n">>
        \o Concat([k \in DOMAIN cif_table.columns |->
                     <<"_">> \o Chars(cif_table.name) \o <<".">>
                     \o Chars(cif_table.columns[k]) \o <<"\n">>])
        \o Concat([r \in DOMAIN cif_table.rows |-> WriteRow(cif_table.rows[r], wlist, 1, FALSE)])

\* mmCIFFileWriter.write_cif_data for an mmCIFData whose tables have
\* columns; a table without rows is not written
write_cif_data(cif_data) ==
    <<"data", "_">> \o Chars(cif_data.name) \o <<"\n", "#", "\n">>
    \o Concat([k \in DOMAIN cif_data.tables |->
                 LET cif_table == cif_data.tables[k]
                 IN  IF Len(cif_table.rows) = 0 THEN <<>>
                     ELSE IF Len(cif_table.rows) = 1
                     THEN write_one_row_table(cif_table) \o <<"#", "\n">>
                     ELSE write_multi_row_table(cif_table) \o <<"#", "\n">>])

\* mmCIFFileWriter.write_file(fil, cif_data_list): the text written
write_file(cif_data_list) ==
    Concat([k \in DOMAIN cif_data_list |-> write_cif_data(cif_data_list[k])])

RECURSIVE TextLines(_)
\* iter(fileobj): the lines of the text, each with its newline
TextLines(text) ==
    IF text = <<>> THEN <<>>
    ELSE IF ~Has(text, "\n") THEN <<text>>
    ELSE LET i == CHOOSE j \in DOMAIN text : text[j] = "\n" /\ \A q \in 1..(j - 1) : text[q] # "\n"
         IN  <<SubSeq(text, 1, i)>> \o TextLines(SubSeq(text, i + 1, Len(text)))

RECURSIVE rstrip(_)
\* str.rstrip()
rstrip(cs) ==
    IF cs # <<>> /\ cs[Len(cs)] \in Whitespace THEN rstrip(SubSeq(cs, 1, Len(cs) - 1)) ELSE cs

\* the least number of a set that is not empty
Least(S) == CHOOSE m \in S : \A n \in S : m <= n

RECURSIVE LineTokens(_, _)
\* re_tok.finditer(ln) from position i: at each position the alternatives
\* are tried in order (item, quoted string, comment, unquoted token), and a
\* position where none matches is passed over
LineTokens(ln, i) ==
    IF i > Len(ln) THEN <<>>
    ELSE LET dots == {j \in (i + 2)..(Len(ln) - 1) :
                        /\ ln[j] = "."
                        /\ ln[j + 1] \notin Whitespace
                        /\ \A q \in (i + 1)..(j - 1) : ln[q] # "\n"}
             closes == {j \in (i + 1)..Len(ln) :
                          /\ ln[j] \in Quotes
                          /\ (j = Len(ln) \/ ln[j + 1] \in Whitespace)
                          /\ \A q \in (i + 1)..(j - 1) : ln[q] # "\n"}
             hashes == {j \in i..Len(ln) :
                          ln[j] = "#" /\ \A q \in i..(j - 1) : ln[q] \in Whitespace}
             stop(from) == Least({j \in from..(Len(ln) + 1) :
                                    j = Len(ln) + 1 \/ ln[j] \in Whitespace})
         IN  IF ln[i] = "_" /\ dots # {}
             THEN LET dot == Least(dots)
                      end == stop(dot + 1)
                  IN  <<Item(Str(SubSeq(ln, i + 1, dot - 1)), Str(SubSeq(ln, dot + 1, end - 1)))>>
                      \o LineTokens(ln, end)
             ELSE IF ln[i] \in Quotes /\ closes # {}
             THEN LET close == Least(closes)
                  IN  <<Quoted(Str(SubSeq(ln, i + 1, close - 1)))>>
                      \o LineTokens(ln, IF close = Len(ln) THEN close + 1 ELSE close + 2)
             ELSE IF hashes # {} THEN <<>>
             ELSE IF ln[i] \notin Whitespace
             THEN <<Word(Str(SubSeq(ln, i, stop(i) - 1)))>> \o LineTokens(ln, stop(i))
             ELSE LineTokens(ln, i + 1)

RECURSIVE gen_token_iter(_)
\* mmCIFFileParser.gen_token_iter(fileobj): the tokens yielded before
\* next(file_iter) finds no line
gen_token_iter(lines) ==
    IF lines = <<>> THEN <<>>
    ELSE LET ln == Head(lines)
             closing == {j \in 2..Len(lines) : lines[j][1] = ";"}
         IN  IF ln[1] = "#" THEN gen_token_iter(Tail(lines))
             ELSE IF ln[1] = ";"
             THEN (IF closing = {} THEN <<>>
                   ELSE LET last == Least(closing)
                            lmerge == <<Tail(ln)>> \o SubSeq(lines, 2, last - 1)
                        IN  <<Quoted(Str(Concat(SubSeq(lmerge, 1, Len(lmerge) - 1))
                                         \o rstrip(lmerge[Len(lmerge)])))>>
                            \o gen_token_iter(SubSeq(lines, last + 1, Len(lines))))
             ELSE LineTokens(ln, 1) \o gen_token_iter(Tail(lines))

\* mmCIFFile.save_file then the tokens of the text read back
SavedTokens(cif_file) == gen_token_iter(TextLines(write_file(cif_file)))

\* ------------------------------------------------------------------------
\* Bounds and inputs
\* ------------------------------------------------------------------------

\* atoms of the bound structure
NAtoms == 3

\* residues of the segment a BackboneRotator is bound to
NRes == 1

NoCall == [op |-> "none", arg |-> None]

\* starting geometries of a segment
SegmentCoor(g) ==
    [i \in 1..NAtoms |-> IF g = 1 THEN V(i, 0, i % 2) ELSE V(1, i, 2 - i)]

\* what get_psi_phi_angles can yield for one torsion: the atoms it moves,
\* its axis and its origin
TorsionPool ==
    << [sel |-> <<NAtoms>>, axis |-> V(1, 0, 0), origin |-> V(0, 0, 0)],
       [sel |-> <<NAtoms - 1, NAtoms>>, axis |-> V(0, 1, 1), origin |-> V(1, 0, 0)],
       [sel |-> <<1, NAtoms>>, axis |-> V(-1, 1, 0), origin |-> V(0, 1, 0)] >>

\* what it can yield for one residue: a psi torsion and a phi torsion
PsiPhiPool ==
    { [psi_sel |-> TorsionPool[p].sel, psi_axis |-> TorsionPool[p].axis,
       psi_origin |-> TorsionPool[p].origin,
       phi_sel |-> TorsionPool[(p % 3) + 1].sel, phi_axis |-> TorsionPool[(p % 3) + 1].axis,
       phi_origin |-> TorsionPool[(p % 3) + 1].origin] : p \in 1..3 }

\* torsion vectors (degrees) of the right length, and two of a wrong length
TorsionVectors(ndofs) ==
    [1..ndofs -> {0, 90}] \cup [1..ndofs -> {0, -45}]
      \cup {[i \in 1..(ndofs - 1) |-> 90], [i \in 1..(ndofs + 1) |-> 0]}

\* ------------------------------------------------------------------------
\* A segment and its BackboneRotator
\* ------------------------------------------------------------------------

InitBackbone ==
    /\ \E g \in {1, 2} : coor = SegmentCoor(g)
    /\ input \in [1..NRes -> PsiPhiPool]
    /\ rot = BackboneInit(coor, NRes, input)
    /\ coor0 = coor
    /\ name = <<>>
    /\ conn = <<>>
    /\ err = "none"
    /\ ret = None
    /\ call = NoCall
    /\ done = NoCall
    /\ nset = 0
    /\ dirty = FALSE

BackboneRotate ==
    \E torsions \in TorsionVectors(rot.ndofs) :
      \E out \in {BackboneCall(rot, coor, torsions)} :
        /\ coor' = out.coor
        /\ err' = out.err
        /\ nset' = out.nset
        /\ ret' = None
        /\ call' = [op |-> "BackboneRotator", arg |-> torsions]
        /\ done' = IF out.err = "none" THEN call' ELSE done
        /\ dirty' = (coor # coor0)
        /\ UNCHANGED <<name, conn, input, rot, coor0>>

NextBackbone == BackboneRotate

SpecBackbone == InitBackbone /\ [][NextBackbone]_vars

\* C1: BackboneRotator calls are absolute.  After any sequence of calls the
\* segment holds what one call with the last accepted torsions gives from
\* the coordinates it had when the rotator was constructed.
CallsAreAbsolute ==
    done.op = "BackboneRotator" =>
        coor = BackboneCall(BackboneInit(coor0, NRes, input), coor0, done.arg).coor

\* a call that moved the segment, made when earlier calls had already moved it
AbsoluteWitness ==
    /\ done.op = "BackboneRotator"
    /\ call = done
    /\ dirty
    /\ coor # coor0

\* the torsions of a vector that are not exactly zero
NonZero(torsions) == {i \in DOMAIN torsions : deg2rad(torsions[i]) # 0}

\* C2: a torsion that is exactly 0 is skipped (one set_xyz per non-zero
\* torsion, none for a zero one), and a call with every torsion 0 leaves
\* the segment at its starting coordinates, whatever calls came before.
ZeroTorsionsSkipped ==
    (call.op = "BackboneRotator" /\ call = done) =>
        /\ nset = Cardinality(NonZero(call.arg))
        /\ (NonZero(call.arg) = {} => coor = coor0)

\* an all-zero call made on a segment that earlier calls had moved
ZeroAfterMoveWitness ==
    /\ call.op = "BackboneRotator"
    /\ call = done
    /\ NonZero(call.arg) = {}
    /\ dirty
    /\ nset = 0

\* C3: a call whose torsion vector has not ndofs = 2 * (number of residues)
\* entries raises before anything is written: the coordinates after the
\* call are those before it.
WrongLengthRaises ==
    [][(call'.op = "BackboneRotator" /\ Len(call'.arg) # 2 * NRes) =>
          (err' = "AssertionError" /\ coor' = coor /\ nset' = 0)]_vars

\* a wrong-length call refused on a segment that earlier calls had moved
WrongLengthWitness ==
    /\ call.op = "BackboneRotator"
    /\ Len(call.arg) # rot.ndofs
    /\ err = "AssertionError"
    /\ dirty

\* ------------------------------------------------------------------------
\* A ligand with a Translator and a GlobalRotator bound to it
\* ------------------------------------------------------------------------

\* starting geometries of a ligand
LigandCoor(g) ==
    [i \in 1..NAtoms |-> V(NAtoms * i, g * (2 * i - NAtoms - 1), NAtoms * (i % 2))]

\* the center a caller may pass to GlobalRotator
Centers == {None, V(1, 0, 2)}

\* translations: 3-vectors, and arrays of other shapes
Translations ==
    { Vector(V(0, 0, 0)), Vector(V(1, 0, 0)), Vector(V(0, -2, 1)),
      Scalar(I(2)), Vector(<<I(1)>>), Vector(<<I(1), I(1)>>),
      Matrix([i \in 1..NAtoms |-> V(i, 0, 0)]),
      Matrix([i \in 1..(NAtoms + 1) |-> V(0, 1, 0)]) }

\* rotation matrices
Rotations == {Matrix(Identity), Matrix(Rz(2)), Matrix(MatMul(Rz(1), Ry(2)))}

InitLigand ==
    /\ \E g \in {1, 2} : coor = LigandCoor(g)
    /\ input \in Centers
    /\ rot = [translator |-> TranslatorInit(coor),
              rotator |-> GlobalRotatorInit(coor, input)]
    /\ coor0 = coor
    /\ name = <<>>
    /\ conn = <<>>
    /\ err = "none"
    /\ ret = None
    /\ call = NoCall
    /\ done = NoCall
    /\ nset = 0
    /\ dirty = FALSE

Translate ==
    \E trans \in Translations :
      \E out \in {TranslatorCall(rot.translator, coor, trans)} :
        /\ coor' = out.coor
        /\ err' = out.err
        /\ ret' = None
        /\ call' = [op |-> "Translator", arg |-> trans]
        /\ done' = IF out.err = "none" THEN call' ELSE done
        /\ dirty' = (coor # coor0)
        /\ UNCHANGED <<name, conn, input, rot, coor0, nset>>

GlobalRotate ==
    \E rotmat \in Rotations :
      \E out \in {GlobalRotatorCall(rot.rotator, coor, rotmat.v)} :
        /\ coor' = out.coor
        /\ err' = out.err
        /\ ret' = None
        /\ call' = [op |-> "GlobalRotator", arg |-> rotmat]
        /\ done' = call'
        /\ dirty' = (coor # coor0)
        /\ UNCHANGED <<name, conn, input, rot, coor0, nset>>

NextLigand == Translate \/ GlobalRotate

SpecLigand == InitLigand /\ [][NextLigand]_vars

\* the 3-vectors among the translations
Is3Vector(a) == a.shape = <<3>>

\* C4: Translator is absolute.  After any sequence of calls (of either
\* sampler) that ends with the translation t, every atom is at its
\* construction-time coordinate plus t; the zero vector restores the
\* construction-time coordinates.
TranslationIsAbsolute ==
    (done.op = "Translator" /\ Is3Vector(done.arg)) =>
        \A i \in DOMAIN coor : coor[i] = VAdd(coor0[i], done.arg.v[1])

\* a translation by a non-zero vector applied to a ligand already moved
TranslationWitness ==
    /\ done.op = "Translator"
    /\ call = done
    /\ Is3Vector(done.arg)
    /\ done.arg.v[1] # V(0, 0, 0)
    /\ dirty

\* C5 as claimed: a Translator call whose translation is not a 3-vector
\* raises an error and leaves the ligand's coordinates unchanged.
WrongShapeTranslationRaises ==
    [][(call'.op = "Translator" /\ ~Is3Vector(call'.arg)) =>
          (err' # "none" /\ coor' = coor)]_vars

\* C6: after a GlobalRotator call with rotmat, every atom is at
\* rotmat * (c0 - center) + center, with c0 its construction-time
\* coordinate and center the caller's center or else the centroid of the
\* construction-time coordinates; the identity restores them.
GlobalRotationIsAbsolute ==
    done.op = "GlobalRotator" =>
        LET center == IF input = None THEN Mean(coor0) ELSE input
        IN  /\ \A i \in DOMAIN coor :
                 coor[i] = VAdd(MatVec(done.arg.v, VSub(coor0[i], center)), center)
            /\ (done.arg.v = Identity => coor = coor0)

\* a rotation about a caller-supplied center of a ligand already moved
GlobalRotationWitness ==
    /\ done.op = "GlobalRotator"
    /\ call = done
    /\ done.arg.v # Identity
    /\ input # None
    /\ dirty
    /\ coor # coor0

\* ------------------------------------------------------------------------
\* A residue and its ChiRotator
\* ------------------------------------------------------------------------

\* a side chain of five atoms
ChiResidueNames == <<"N", "CA", "CB", "CG", "CD">>

\* its starting geometries; in the third N, CA and CB are collinear
ChiResidueCoor(g) ==
    CASE g = 1 -> <<V(1, 0, -1), V(0, 0, 0), V(0, 0, 2), V(1, 1, 2), V(2, 1, 3)>>
      [] g = 2 -> <<V(0, 1, 0), V(1, 1, 0), V(1, 3, 0), V(1, 3, 1), V(2, 3, 1)>>
      [] g = 3 -> <<V(0, 0, -1), V(0, 0, 0), V(0, 0, 2), V(1, 1, 2), V(2, 1, 3)>>

\* chi angles in degrees
ChiAngles == {0, 45, 90, 180, -90, -45, 270, 360, 405, 720}

InitChi ==
    /\ name = ChiResidueNames
    /\ \E g \in {1, 2, 3} : coor = ChiResidueCoor(g)
    /\ \E chi_index \in {1, 2} : input = [chi_index |-> chi_index]
    /\ rot = ChiInit(name, coor, input.chi_index, NoName, 0)
    /\ err = IF rot.ok THEN "none" ELSE rot.error
    /\ coor0 = coor
    /\ conn = <<>>
    /\ ret = None
    /\ call = NoCall
    /\ done = NoCall
    /\ nset = 0
    /\ dirty = FALSE

ChiTurn ==
    /\ rot.ok
    /\ \E angle \in ChiAngles :
         \E out \in {ChiCall(rot, coor, angle)} :
           /\ coor' = out.coor
           /\ err' = out.err
           /\ ret' = None
           /\ call' = [op |-> "ChiRotator", arg |-> angle]
           /\ done' = call'
           /\ dirty' = (coor # coor0)
           /\ UNCHANGED <<name, conn, input, rot, coor0, nset>>

NextChi == ChiTurn

SpecChi == InitChi /\ [][NextChi]_vars

\* C7: a ChiRotator call with angle 0 leaves every atom of the residue at
\* its construction-time coordinate, angle 360 gives what angle 0 gives,
\* and angles that differ by a multiple of 360 give the same coordinates.
ChiZeroAndFullTurn ==
    done.op = "ChiRotator" =>
        /\ (done.arg % 360 = 0 => coor = coor0)
        /\ coor = ChiCall(ChiInit(name, coor0, input.chi_index, NoName, 0), coor0,
                          done.arg % 360).coor

\* a full turn, and a turn of 405 degrees, applied to a residue already moved
ChiFullTurnWitness ==
    /\ done.op = "ChiRotator"
    /\ done.arg \in {360, 405}
    /\ dirty

\* ------------------------------------------------------------------------
\* A residue and its two CB-bend rotators
\* ------------------------------------------------------------------------

\* residues: a side chain with a beta hydrogen (three geometries), a
\* glycine, one with CA in two alternate locations and no CG, one without
\* CB, one with CB in two alternate locations
BendResidues ==
    { [names |-> <<"N", "CA", "CB", "HB2", "CG", "CD">>,
       coor |-> <<V(0, 1, 0), V(0, 0, 0), V(1, 0, 0), V(1, 0, -1), V(1, 0, 1), V(2, 1, 1)>>],
      [names |-> <<"N", "CA", "CB", "HB2", "CG", "CD">>,
       coor |-> <<V(0, 0, 1), V(1, -1, 1), V(1, 1, 1), V(1, 1, 2), V(2, 1, 1), V(3, 2, 2)>>],
      [names |-> <<"N", "CA", "CB", "HB2", "CG", "CD">>,
       coor |-> <<V(1, 0, 3), V(0, 0, 2), V(0, 0, 0), V(0, 1, 0), V(1, 0, 0), V(2, 1, 1)>>],
      [names |-> <<"N", "CA", "C", "O">>,
       coor |-> <<V(0, 1, 0), V(0, 0, 0), V(1, 0, 0), V(1, 0, 1)>>],
      [names |-> <<"N", "CA", "CA", "CB", "OG">>,
       coor |-> <<V(0, 1, 0), V(0, 0, 0), V(1, 0, 1), V(1, 0, 0), V(2, 1, 0)>>],
      [names |-> <<"CA", "CG", "CG", "OG">>,
       coor |-> <<V(0, 0, 0), V(1, 0, 1), V(1, 0, 0), V(2, 1, 0)>>],
      [names |-> <<"CA", "CB", "CB", "OG">>,
       coor |-> <<V(0, 0, 0), V(1, 0, 1), V(1, 0, 0), V(2, 1, 0)>>] }

\* bend angles in degrees
BendAngles == {0, 45, 90, 135, 180, -135, -90, -45}

InitBend ==
    /\ \E res \in BendResidues : name = res.names /\ coor = res.coor
    /\ rot = [cb |-> CBAngleInit(name, coor), bisecting |-> BisectingAngleInit(name, coor)]
    /\ input = None
    /\ err = "none"
    /\ coor0 = coor
    /\ conn = <<>>
    /\ ret = None
    /\ call = NoCall
    /\ done = NoCall
    /\ nset = 0
    /\ dirty = FALSE

CBAngleRotate ==
    /\ rot.cb.ok
    /\ \E angle \in BendAngles :
         /\ coor' = CBAngleCall(rot.cb, coor, angle)
         /\ call' = [op |-> "CBAngleRotator", arg |-> angle]
         /\ done' = call'
         /\ dirty' = (coor # coor0)
         /\ UNCHANGED <<name, conn, input, rot, err, ret, coor0, nset>>

BisectingAngleRotate ==
    /\ rot.bisecting.ok
    /\ \E angle \in BendAngles :
         /\ coor' = BisectingAngleCall(rot.bisecting, coor, angle)
         /\ call' = [op |-> "BisectingAngleRotator", arg |-> angle]
         /\ done' = call'
         /\ dirty' = (coor # coor0)
         /\ UNCHANGED <<name, conn, input, rot, err, ret, coor0, nset>>

NextBend == CBAngleRotate \/ BisectingAngleRotate

SpecBend == InitBend /\ [][NextBend]_vars

\* the atoms whose name is none of N, CA, C, O, CB, H, HA, HB2, HB3
AfterCB ==
    {i \in DOMAIN name :
        name[i] \notin {"N", "CA", "C", "O", "CB", "H", "HA", "HB2", "HB3"}}

\* C8: the moved set of a CBAngleRotator and of a BisectingAngleRotator is
\* exactly the atoms whose name is none of N, CA, C, O, CB, H, HA, HB2, HB3,
\* and after any sequence of calls every atom with one of those names has
\* its construction-time coordinates.
OnlyAtomsAfterCBMove ==
    /\ rot.cb.ok => Range(rot.cb.atoms_to_rotate) = AfterCB
    /\ rot.bisecting.ok => Range(rot.bisecting.atoms_to_rotate) = AfterCB
    /\ \A i \in DOMAIN name : i \notin AfterCB => coor[i] = coor0[i]

\* a second bend, by either rotator, that has displaced an atom after CB of
\* a residue with a beta hydrogen
BendWitness ==
    /\ done.op \in {"CBAngleRotator", "BisectingAngleRotator"}
    /\ dirty
    /\ "HB2" \in Range(name)
    /\ \E i \in AfterCB : coor[i] # coor0[i]

\* the residue has exactly one atom named CA, one named CB and one named CG
OneEachOfCACBCG ==
    \A n \in {"CA", "CB", "CG"} : Cardinality({i \in DOMAIN name : name[i] = n}) = 1

\* C9: construction of a CBAngleRotator, and of a BisectingAngleRotator,
\* succeeds only when CA, CB and CG are each present exactly once; a residue
\* without exactly one of each has no rotator.
ConstructionNeedsOneEach ==
    /\ rot.cb.ok => OneEachOfCACBCG
    /\ rot.bisecting.ok => OneEachOfCACBCG

\* ------------------------------------------------------------------------
\* A ligand with bonds, its BondRotator and the caller that writes back
\* ------------------------------------------------------------------------

\* a zigzag chain, and a three-ring with a tail along Z
BondLigands ==
    { [names |-> <<"C1", "C2", "C3", "C4">>,
       coor |-> <<V(1, 2, 0), V(1, 1, 0), V(2, 1, 0), V(2, 0, 1)>>,
       conn |-> <<<<0, 1, 0, 0>>, <<1, 0, 1, 0>>, <<0, 1, 0, 1>>, <<0, 0, 1, 0>>>>],
      [names |-> <<"C1", "C2", "C3", "C4">>,
       coor |-> <<V(1, 1, 1), V(2, 1, 1), V(1, 2, 1), V(1, 1, 2)>>,
       conn |-> <<<<0, 1, 1, 1>>, <<1, 0, 1, 0>>, <<1, 1, 0, 0>>, <<1, 0, 0, 0>>>>] }

\* bond angles in radians, as eighths of a turn
BondAngles == {0, 1, 2, 3, 4, -1, -2}

InitBond ==
    /\ \E lig \in BondLigands :
         /\ name = lig.names /\ coor = lig.coor /\ conn = lig.conn
         /\ \E i, j \in DOMAIN lig.names :
              /\ lig.conn[i][j] # 0
              /\ input = [a1 |-> lig.names[i], a2 |-> lig.names[j]]
    /\ rot = BondInit(name, coor, conn, input.a1, input.a2)
    /\ err = IF rot.ok THEN "none" ELSE rot.error
    /\ coor0 = coor
    /\ ret = None
    /\ call = NoCall
    /\ done = NoCall
    /\ nset = 0
    /\ dirty = FALSE

\* rotator(angle): the ligand is left alone, the new array is returned
BondRotate ==
    /\ rot.ok
    /\ \E angle \in BondAngles :
         /\ ret' = BondCall(rot, coor, angle)
         /\ coor' = BondLigandAfter(coor, ret')
         /\ call' = [op |-> "BondRotator", arg |-> angle]
         /\ done' = call'
         /\ UNCHANGED <<name, conn, input, rot, err, coor0, nset, dirty>>

\* ligand.coor = returned array
WriteBack ==
    /\ ret # None
    /\ coor' = coor_set(coor, ret)
    /\ dirty' = (coor' # coor0)
    /\ call' = [op |-> "coor", arg |-> None]
    /\ UNCHANGED <<name, conn, input, rot, err, ret, coor0, done, nset>>

NextBond == BondRotate \/ WriteBack

SpecBond == InitBond /\ [][NextBond]_vars

RECURSIVE Reach(_, _)
\* the atoms connected to the atoms of set by bonds that avoid the root
Reach(set, root) ==
    LET more == set \cup {j \in DOMAIN conn :
                             j # root /\ \E i \in set : conn[i][j] # 0}
    IN  IF more = set THEN set ELSE Reach(more, root)

\* the atoms downstream of a2
Downstream == Reach({index(name, input.a2)}, index(name, input.a1))

\* C10: in the array a BondRotator call returns, every atom that is not
\* downstream of a2, the root a1 included, has the coordinate it has in the
\* ligand before the call.
FixedSideUnchanged ==
    [][call'.op = "BondRotator" =>
         \A i \in DOMAIN name : i \notin Downstream => ret'[i] = coor[i]]_vars

\* a call on a ligand whose downstream side has already been turned and
\* written back, returning an array that turns it again
FixedSideWitness ==
    /\ call.op = "BondRotator"
    /\ dirty
    /\ ret # coor
    /\ Cardinality(Downstream) < Len(name) - 1

\* ------------------------------------------------------------------------
\* Every sampler, each bound to its own structure
\* ------------------------------------------------------------------------

\* which sampler the structure is bound to
IsBackbone == "ndofs" \in DOMAIN rot
IsLigand == "translator" \in DOMAIN rot
IsChi == "backward" \in DOMAIN rot
IsBend == "cb" \in DOMAIN rot
IsBond == "root" \in DOMAIN rot

InitSamplers == InitBackbone \/ InitLigand \/ InitChi \/ InitBend \/ InitBond

NextSamplers ==
    \/ IsBackbone /\ BackboneRotate
    \/ IsLigand /\ Translate
    \/ IsLigand /\ GlobalRotate
    \/ IsChi /\ ChiTurn
    \/ IsBend /\ CBAngleRotate
    \/ IsBend /\ BisectingAngleRotate
    \/ IsBond /\ BondRotate

SpecSamplers == InitSamplers /\ [][NextSamplers]_vars

\* C11: after any sequence of BondRotator calls the ligand has the
\* coordinates it had before the first, and each call returns a full-length
\* array; a call of any other sampler returns nothing.
OnlyBondRotatorReturns ==
    /\ IsBond => coor = coor0
    /\ call.op = "BondRotator" => ret # None /\ Len(ret) = Len(coor)
    /\ call.op \in {"BackboneRotator", "Translator", "GlobalRotator", "ChiRotator",
                     "CBAngleRotator", "BisectingAngleRotator"} => ret = None

\* a BondRotator call that returned an array with atoms turned
BondReturnsWitness ==
    /\ call.op = "BondRotator"
    /\ coor = coor0
    /\ ret # coor

\* ------------------------------------------------------------------------
\* ZAxisAligner on its own
\* ------------------------------------------------------------------------

\* polar angles 0..180 and azimuths 0..315 degrees, in eighths of a turn
Polars == 0..4
Azimuths == 0..7

\* the unit vector with the given polar angle and azimuth
UnitVector(polar, azimuth) ==
    <<Mul(Sin(polar), Cos(azimuth)), Mul(Sin(polar), Sin(azimuth)), Cos(polar)>>

\* the lengths of the axes handed to the aligner
AxisLengths == {One, I(2), Sqrt2}

\* no aligner yet
NoAligner == Raised("none")

InitAligner ==
    /\ \E polar \in Polars, azimuth \in Azimuths, len \in AxisLengths :
         input = VScale(UnitVector(polar, azimuth), len)
    /\ rot = NoAligner
    /\ name = <<>>
    /\ coor = <<>>
    /\ coor0 = <<>>
    /\ conn = <<>>
    /\ err = "none"
    /\ ret = None
    /\ call = NoCall
    /\ done = NoCall
    /\ nset = 0
    /\ dirty = FALSE

\* aligner = ZAxisAligner(axis), then aligner.backward_rotation @ axis
Align ==
    /\ call = NoCall
    /\ \E aligner \in {ZAxisAligner(input)} :
         /\ rot' = aligner
         /\ err' = IF aligner.ok THEN "none" ELSE aligner.error
         /\ ret' = IF aligner.ok THEN MatVec(aligner.backward_rotation, input) ELSE None
    /\ call' = [op |-> "ZAxisAligner", arg |-> input]
    /\ done' = call'
    /\ UNCHANGED <<name, coor, conn, input, coor0, nset, dirty>>

NextAligner == Align

SpecAligner == InitAligner /\ [][NextAligner]_vars

\* C12: for every unit vector v, those along +Z and -Z included,
\* ZAxisAligner(v) is constructed without error and its backward_rotation
\* takes v to (0, 0, 1).
AlignsEveryUnitVector ==
    (call.op = "ZAxisAligner" /\ Norm(input) = One) =>
        /\ rot.ok
        /\ ret = V(0, 0, 1)

\* C13: a ZAxisAligner that was constructed has backward_rotation equal to
\* the transpose of forward_rotation, forward_rotation @ backward_rotation
\* equal to the identity, forward_rotation = Rz @ Ry and
\* backward_rotation = Ry^T @ Rz^T.
AlignerRotationsAreInverse ==
    (call.op = "ZAxisAligner" /\ rot.ok) =>
        /\ rot.backward_rotation = Transpose(rot.forward_rotation)
        /\ MatMul(rot.forward_rotation, rot.backward_rotation) = Identity
        /\ rot.forward_rotation = MatMul(rot.Rz, rot.Ry)
        /\ rot.backward_rotation = MatMul(Transpose(rot.Ry), Transpose(rot.Rz))

\* an aligner for an axis that is neither in the XY plane nor in the XZ
\* plane, so that neither elementary rotation is the identity
AlignerWitness ==
    /\ call.op = "ZAxisAligner"
    /\ rot.ok
    /\ rot.Rz # Identity
    /\ rot.Ry # Identity
    /\ input[3] # Zero

\* ------------------------------------------------------------------------
\* RotationSets.local, the random_rotation calls it makes, and the
\* conversion of its result
\* ------------------------------------------------------------------------

\* the largest number of rotations asked for
MaxRots == 2

\* max_angle in degrees
MaxAngles == {90, 100, 180}

\* the values np.random.uniform(-1, 1) draws from [-1, 1)
Variates == {I(-1), Neg(HalfSqrt2), Zero, HalfSqrt2}

InitRotations ==
    /\ \E max_angle \in MaxAngles, nrots \in 1..MaxRots :
         input = [max_angle |-> max_angle, nrots |-> nrots]
    /\ rot = [pc |-> "local", quats |-> <<>>, e |-> <<Zero, Zero, Zero, Zero>>,
              s1 |-> One, s2 |-> One, quat |-> None, rotmats |-> <<>>]
    /\ name = <<>>
    /\ coor = <<>>
    /\ coor0 = <<>>
    /\ conn = <<>>
    /\ err = "none"
    /\ ret = None
    /\ call = NoCall
    /\ done = NoCall
    /\ nset = 0
    /\ dirty = FALSE

\* while len(quats) < nrots - 1: quat = cls.random_rotation()
LocalSample ==
    /\ rot.pc = "local"
    /\ Len(rot.quats) < SamplesWanted(input.nrots)
    /\ rot' = [rot EXCEPT !.pc = "pair1", !.e = <<Zero, Zero, Zero, Zero>>,
                           !.s1 = One, !.s2 = One, !.quat = None]
    /\ call' = [op |-> "random_rotation", arg |-> None]
    /\ UNCHANGED <<name, coor, conn, input, err, ret, coor0, done, nset, dirty>>

\* the first loop of random_rotation: one draw of e1, e2
DrawFirstPair ==
    /\ rot.pc = "pair1"
    /\ \E e1, e2 \in Variates :
         \E s1 \in {Add(Square(e1), Square(e2))} :
           rot' = [rot EXCEPT !.e = <<e1, e2, Zero, Zero>>, !.s1 = s1,
                              !.pc = IF AcceptsPair(s1) THEN "pair2" ELSE "pair1"]
    /\ UNCHANGED <<name, coor, conn, input, err, ret, coor0, call, done, nset, dirty>>

\* the second loop of random_rotation: one draw of e3, e4; when the pair is
\* accepted the quaternion is built and returned
DrawSecondPair ==
    /\ rot.pc = "pair2"
    /\ \E e3, e4 \in Variates :
         \E s2 \in {Add(Square(e3), Square(e4))} :
           rot' = IF AcceptsPair(s2)
                  THEN [rot EXCEPT !.e = <<@[1], @[2], e3, e4>>, !.s2 = s2, !.pc = "filter",
                                   !.quat = RandomQuat(rot.e[1], rot.e[2], e3, e4)]
                  ELSE [rot EXCEPT !.e = <<@[1], @[2], e3, e4>>, !.s2 = s2]
    /\ UNCHANGED <<name, coor, conn, input, err, ret, coor0, call, done, nset, dirty>>

\* if angle <= radian_max_angle: quats.append(quat)
Filter ==
    /\ rot.pc = "filter"
    /\ rot' = [rot EXCEPT !.pc = "local",
                           !.quats = IF KeepsAngle(rot.quat, input.max_angle)
                                     THEN Append(@, rot.quat) ELSE @]
    /\ done' = [op |-> "random_rotation", arg |-> None]
    /\ dirty' = (dirty \/ ~KeepsAngle(rot.quat, input.max_angle))
    /\ UNCHANGED <<name, coor, conn, input, err, ret, coor0, call, nset>>

\* quats.append([1, 0, 0, 0]); return np.asarray(quats)
LocalReturn ==
    /\ rot.pc = "local"
    /\ ~(Len(rot.quats) < SamplesWanted(input.nrots))
    /\ rot' = [rot EXCEPT !.pc = "returned", !.quats = Append(@, QuatIdentity)]
    /\ ret' = rot'.quats
    /\ call' = [op |-> "local", arg |-> None]
    /\ done' = call'
    /\ UNCHANGED <<name, coor, conn, input, err, coor0, nset, dirty>>

\* cls.quats_to_rotmats(quats)
Convert ==
    /\ rot.pc = "returned"
    /\ rot' = [rot EXCEPT !.pc = "converted", !.rotmats = quats_to_rotmats(ret)]
    /\ call' = [op |-> "quats_to_rotmats", arg |-> None]
    /\ done' = call'
    /\ UNCHANGED <<name, coor, conn, input, err, ret, coor0, nset, dirty>>

NextRotations ==
    LocalSample \/ DrawFirstPair \/ DrawSecondPair \/ Filter \/ LocalReturn \/ Convert

SpecRotations == InitRotations /\ [][NextRotations]_vars

\* C14: RotationSets.local(max_angle, count) returns exactly count
\* quaternions, the last is the identity quaternion, and the identity is in
\* no other position.
LocalEndsWithIdentity ==
    ret # None =>
        /\ Len(ret) = input.nrots
        /\ ret[Len(ret)] = <<One, Zero, Zero, Zero>>
        /\ \A i \in 1..(Len(ret) - 1) : ret[i] # <<One, Zero, Zero, Zero>>

\* local has returned a sample followed by the identity
LocalWitness ==
    /\ ret # None
    /\ Len(ret) >= 2
    /\ rot.pc = "returned"

\* C15: every quaternion local returns, the final identity apart, has
\* rotation angle 2 * arccos(w) of at most max_angle; a sample beyond the
\* bound is never added, neither to the result nor to the list being built.
LocalSamplesWithinAngle ==
    /\ \A i \in 1..(Len(rot.quats) - 1) : QuatAngle(rot.quats[i]) * 45 <= input.max_angle
    /\ (rot.pc \in {"local", "pair1", "pair2", "filter"} /\ rot.quats # <<>>) =>
           QuatAngle(rot.quats[Len(rot.quats)]) * 45 <= input.max_angle

\* local has returned a sample after having rejected another
LocalRejectWitness ==
    /\ ret # None
    /\ Len(ret) >= 2
    /\ dirty

\* v ** 2 summed over the four components
QuatNormSq(q) == Add(Add(Square(q[1]), Square(q[2])), Add(Square(q[3]), Square(q[4])))

\* C16: random_rotation returns only after both pairs were accepted with
\* squared norm below 1, the first pair is kept as drawn, and the returned
\* quaternion has unit norm.
RandomRotationIsUnit ==
    rot.pc = "filter" =>
        /\ Less(rot.s1, One) /\ Less(rot.s2, One)
        /\ rot.quat[1] = rot.e[1] /\ rot.quat[2] = rot.e[2]
        /\ NaN \notin Range(rot.quat)
        /\ QuatNormSq(rot.quat) = One

\* the determinant of a 3 x 3 matrix
Det(M) ==
    Add(Sub(Mul(M[1][1], Sub(Mul(M[2][2], M[3][3]), Mul(M[2][3], M[3][2]))),
            Mul(M[1][2], Sub(Mul(M[2][1], M[3][3]), Mul(M[2][3], M[3][1])))),
        Mul(M[1][3], Sub(Mul(M[2][1], M[3][2]), Mul(M[2][2], M[3][1]))))

\* a matrix of numbers
IsFinite(M) == \A i, j \in 1..3 : M[i][j] # NaN /\ DOMAIN M[i][j] = 1..3

\* the quaternion q with every component multiplied by c
QuatScaled(q, c) == <<Mul(q[1], c), Mul(q[2], c), Mul(q[3], c), Mul(q[4], c)>>

\* C17: for every quaternion random_rotation produced (and local returned),
\* the matrix quats_to_rotmats gives is orthogonal with determinant +1, a
\* scaled quaternion gives the same matrix, and n quaternions give n
\* matrices in the same order.
RotmatsAreRotations ==
    rot.pc = "converted" =>
        /\ Len(rot.rotmats) = Len(ret)
        /\ \A i \in DOMAIN ret :
              /\ IsFinite(rot.rotmats[i])
              /\ MatMul(Transpose(rot.rotmats[i]), rot.rotmats[i]) = Identity
              /\ Det(rot.rotmats[i]) = One
              /\ \A c \in {I(2), I(-1), Sqrt2} :
                    QuatToRotmat(QuatScaled(ret[i], c)) = rot.rotmats[i]
        /\ \A i \in DOMAIN ret : rot.rotmats[i] = QuatToRotmat(ret[i])

\* ------------------------------------------------------------------------
\* An mmCIFFile built by calls of its containers
\* ------------------------------------------------------------------------

\* the most objects (data blocks and tables together) made
MaxObjects == 3

\* another object may be made
MayMake == Len(rot.blocks) + Len(rot.tables) < MaxObjects

\* names of data blocks and of tables
BlockNames == {"1abc", "1ABC"}
TableNames == {"atom_site", "ATOM_SITE", "cell"}

InitCif ==
    /\ rot = [file |-> <<>>, blocks |-> <<>>, tables |-> <<>>]
    /\ input = None
    /\ name = <<>>
    /\ coor = <<>>
    /\ coor0 = <<>>
    /\ conn = <<>>
    /\ err = "none"
    /\ ret = None
    /\ call = NoCall
    /\ done = NoCall
    /\ nset = 0
    /\ dirty = FALSE

\* the outcome of a call on a container: an exception leaves the store as
\* it was
Called(op, container, item, out) ==
    /\ rot' = out.st
    /\ err' = out.err
    /\ call' = [op |-> op, arg |-> <<container, item>>]
    /\ done' = IF out.err = "none" THEN call' ELSE done
    /\ UNCHANGED <<name, coor, conn, input, ret, coor0, nset, dirty>>

\* cdata = mmCIFData(name)
MakeData ==
    /\ MayMake
    /\ \E n \in BlockNames :
         Called("mmCIFData", 0, Len(rot.blocks) + 1, Outcome("none", NewDataObject(rot, n)))

\* table = mmCIFTable(name)
MakeTable ==
    /\ MayMake
    /\ \E n \in TableNames :
         Called("mmCIFTable", 0, Len(rot.tables) + 1, Outcome("none", NewTableObject(rot, n)))

CifFileAppend ==
    \E b \in DOMAIN rot.blocks : Called("mmCIFFile.append", 0, b, FileAppend(rot, b))

CifFileInsert ==
    \E b \in DOMAIN rot.blocks, i \in {-1, 0, 1} :
        Called("mmCIFFile.insert", 0, b, FileInsert(rot, i, b))

CifNewData ==
    /\ MayMake
    /\ \E n \in BlockNames :
         Called("mmCIFFile.new_data", 0, Len(rot.blocks) + 1, new_data(rot, n))

CifDataAppend ==
    \E b \in DOMAIN rot.blocks, t \in DOMAIN rot.tables :
        Called("mmCIFData.append", b, t, DataAppend(rot, b, t))

CifDataInsert ==
    \E b \in DOMAIN rot.blocks, t \in DOMAIN rot.tables, i \in {-1, 0, 1} :
        Called("mmCIFData.insert", b, t, DataInsert(rot, b, i, t))

CifNewTable ==
    /\ MayMake
    /\ \E b \in DOMAIN rot.blocks, n \in TableNames :
         Called("mmCIFData.new_table", b, Len(rot.tables) + 1, new_table(rot, b, n))

NextCif ==
    \/ MakeData \/ MakeTable
    \/ CifFileAppend \/ CifFileInsert \/ CifNewData
    \/ CifDataAppend \/ CifDataInsert \/ CifNewTable

SpecCif == InitCif /\ [][NextCif]_vars

\* the names of the items at two different positions differ, case apart
NamesDiffer(items, objects) ==
    \A p, q \in DOMAIN items :
        p # q => Lower(objects[items[p]].name) # Lower(objects[items[q]].name)

\* C18: after any sequence of append, insert and new_table calls on an
\* mmCIFData, and of append, insert and new_data calls on an mmCIFFile, no
\* two tables of a block and no two blocks of the file have names that are
\* equal ignoring case, and the item just added is in its container.
NamesAreUniqueIgnoringCase ==
    /\ NamesDiffer(rot.file, rot.blocks)
    /\ \A b \in DOMAIN rot.blocks : NamesDiffer(rot.blocks[b].tables, rot.tables)
    /\ done.op \in {"mmCIFFile.append", "mmCIFFile.insert", "mmCIFFile.new_data"} =>
           done.arg[2] \in Range(rot.file)
    /\ done.op \in {"mmCIFData.append", "mmCIFData.insert", "mmCIFData.new_table"} =>
           done.arg[2] \in Range(rot.blocks[done.arg[1]].tables)

\* a table has replaced, in a block of the file, one whose name differs
\* from its own only in case
ReplacedWitness ==
    /\ done.op \in {"mmCIFData.append", "mmCIFData.insert", "mmCIFData.new_table"}
    /\ done.arg[1] \in Range(rot.file)
    /\ \E t \in DOMAIN rot.tables :
         /\ t # done.arg[2]
         /\ rot.tables[t].name # rot.tables[done.arg[2]].name
         /\ Lower(rot.tables[t].name) = Lower(rot.tables[done.arg[2]].name)
         /\ rot.tables[t].data = 0

\* ------------------------------------------------------------------------
\* mmCIFFile.load_file on small files
\* ------------------------------------------------------------------------

Line(toks) == [comment |-> FALSE, toks |-> toks]
CommentLine == [comment |-> TRUE, toks |-> <<>>]

\* files, each with what it holds when it is well-formed: the numbers of
\* data blocks, of tables and of rows
CifFiles ==
    { [lines |-> <<Line(<<Word("data_1abc")>>), Line(<<Item("cell", "a"), Word("1")>>),
                   Line(<<Item("cell", "b"), Quoted("x y")>>)>>,
       wellformed |-> TRUE, blocks |-> 1, tables |-> 1, rows |-> 1, reloop |-> FALSE],
      [lines |-> <<CommentLine, Line(<<Word("data_1abc")>>), Line(<<Word("loop_")>>),
                   Line(<<Item("atom_site", "id")>>), Line(<<Item("atom_site", "x")>>),
                   Line(<<Word("1"), Word("2")>>), Line(<<Word("3"), Word(".")>>)>>,
       wellformed |-> TRUE, blocks |-> 1, tables |-> 1, rows |-> 2, reloop |-> FALSE],
      [lines |-> <<Line(<<Word("data_1abc")>>), Line(<<Item("cell", "a"), Word("1")>>),
                   Line(<<Word("loop_")>>), Line(<<Item("atom_site", "id")>>),
                   Line(<<Word("1")>>), Line(<<Word("2")>>),
                   Line(<<Word("DATA_2xyz")>>), Line(<<Item("cell", "a"), Word("2")>>)>>,
       wellformed |-> TRUE, blocks |-> 2, tables |-> 3, rows |-> 4, reloop |-> FALSE],
      [lines |-> <<Line(<<Word("data_1abc")>>), Line(<<Item("cell", "a"), Word("1")>>),
                   Line(<<Word("stop_")>>)>>,
       wellformed |-> FALSE, blocks |-> 1, tables |-> 1, rows |-> 1, reloop |-> FALSE],
      [lines |-> <<Line(<<Word("data_1abc")>>), Line(<<Word("loop_")>>),
                   Line(<<Item("atom_site", "id")>>), Line(<<Word("1")>>),
                   Line(<<Word("stop_")>>)>>,
       wellformed |-> FALSE, blocks |-> 1, tables |-> 1, rows |-> 1, reloop |-> FALSE],
      [lines |-> <<Line(<<Word("junk")>>), Line(<<Word("data_1abc")>>),
                   Line(<<Item("cell", "a"), Word("1")>>)>>,
       wellformed |-> FALSE, blocks |-> 1, tables |-> 1, rows |-> 1, reloop |-> FALSE],
      [lines |-> <<Line(<<Word("loop_")>>), Line(<<Item("atom_site", "id")>>),
                   Line(<<Word("1")>>)>>,
       wellformed |-> FALSE, blocks |-> 0, tables |-> 0, rows |-> 0, reloop |-> FALSE],
      [lines |-> <<Line(<<Word("data_1abc")>>), Line(<<Word("save_frame")>>),
                   Line(<<Item("cell", "a"), Word("1")>>)>>,
       wellformed |-> FALSE, blocks |-> 1, tables |-> 1, rows |-> 1, reloop |-> FALSE],
      [lines |-> <<Line(<<Word("data_1abc")>>), Line(<<Word("loop_")>>),
                   Line(<<Item("atom_site", "id")>>), Line(<<Item("atom_site", "x")>>),
                   Line(<<Word("1"), Word("2")>>), Line(<<Word("3")>>)>>,
       wellformed |-> FALSE, blocks |-> 1, tables |-> 1, rows |-> 2, reloop |-> FALSE],
      [lines |-> <<Line(<<Word("data_1abc")>>), Line(<<Word("loop_")>>),
                   Line(<<Item("atom_site", "id")>>), Line(<<Word("1")>>), Line(<<Word("2")>>),
                   Line(<<Word("loop_")>>), Line(<<Item("atom_site", "id")>>),
                   Line(<<Word("3")>>)>>,
       wellformed |-> FALSE, blocks |-> 1, tables |-> 1, rows |-> 2, reloop |-> TRUE],
      [lines |-> <<Line(<<Word("data_1abc")>>), Line(<<Item("cell", "a"), Word("1")>>),
                   Line(<<Word("loop_")>>), Line(<<Item("cell", "b")>>), Line(<<Word("2")>>)>>,
       wellformed |-> FALSE, blocks |-> 1, tables |-> 1, rows |-> 1, reloop |-> TRUE],
      [lines |-> <<CommentLine>>,
       wellformed |-> FALSE, blocks |-> 0, tables |-> 0, rows |-> 0, reloop |-> FALSE] }

InitParser ==
    /\ \E file \in CifFiles, pep479 \in BOOLEAN :
         /\ input = [file |-> file, pep479 |-> pep479]
         /\ rot = parse_file(file.lines, pep479)
    /\ name = <<>>
    /\ coor = <<>>
    /\ coor0 = <<>>
    /\ conn = <<>>
    /\ err = "none"
    /\ ret = None
    /\ call = NoCall
    /\ done = NoCall
    /\ nset = 0
    /\ dirty = FALSE

\* one step of the parse; the exception that ends it, if any, leaves
\* load_file
ParserStep(q) ==
    /\ rot' = q
    /\ err' = IF q.pc = "ended" /\ q.outcome # "returned" THEN q.outcome ELSE "none"
    /\ call' = [op |-> "load_file", arg |-> None]
    /\ done' = IF q.pc = "ended" /\ q.outcome = "returned" THEN call' ELSE done
    /\ UNCHANGED <<name, coor, conn, input, ret, coor0, nset, dirty>>

ParseSkip == rot.pc = "skip" /\ ParserStep(SkipToken(rot))

\* a stop_ word, or a token that is no item and no known reserved word
ParseLeaves ==
    /\ rot.pc = "main"
    /\ StateChange(rot).pc = "ended"
    /\ ParserStep(StateChange(rot))

ParseData ==
    /\ rot.pc = "main"
    /\ StateChange(rot).pc # "ended"
    /\ StateChange(rot).state \in {"RD_DATA", "RD_SAVE"}
    /\ ParserStep(ReadData(StateChange(rot)))

ParseSingle ==
    /\ rot.pc = "main"
    /\ StateChange(rot).pc # "ended"
    /\ StateChange(rot).state = "RD_SINGLE"
    /\ ParserStep(ReadSingle(StateChange(rot)))

ParseLoop ==
    /\ rot.pc = "main"
    /\ StateChange(rot).pc # "ended"
    /\ StateChange(rot).state = "RD_LOOP"
    /\ ParserStep(LoopFirst(StateChange(rot)))

ParseLoopColumn == rot.pc = "loop_cols" /\ ParserStep(LoopColumn(rot))

ParseLoopRow == rot.pc = "loop_rows" /\ ParserStep(LoopRow(rot))

NextParser ==
    \/ ParseSkip \/ ParseLeaves \/ ParseData \/ ParseSingle
    \/ ParseLoop \/ ParseLoopColumn \/ ParseLoopRow

SpecParser == InitParser /\ [][NextParser]_vars

RECURSIVE SumOver(_, _)
\* the sum of F over the members of a sequence of identities
SumOver(ids, counts) ==
    IF ids = <<>> THEN 0 ELSE Len(counts[Head(ids)]) + SumOver(Tail(ids), counts)

\* the tables of the blocks of the file
TablesOfFile(p) ==
    {t \in DOMAIN p.st.tables : \E b \in Range(p.st.file) : t \in Range(p.st.blocks[b].tables)}

\* C19: load_file on a well-formed file (no stop_ word) returns normally
\* once the lines are exhausted, with every data block, table and row in
\* the file; a parse returns normally only at exhaustion.
LoadFileReturnsAtExhaustion ==
    rot.pc = "ended" =>
        /\ input.file.wellformed =>
              /\ rot.outcome = "returned"
              /\ Len(rot.st.file) = input.file.blocks
              /\ Cardinality(TablesOfFile(rot)) = input.file.tables
              /\ SumOver(SortedSeq(TablesOfFile(rot)), rot.rows) = input.file.rows
        /\ rot.outcome = "returned" => rot.pos = Len(rot.tokens)

\* ------------------------------------------------------------------------
\* BondRotator: the atoms collected at construction
\* ------------------------------------------------------------------------

\* C20: atoms_to_rotate is the root, then a2, then exactly the atoms that
\* a path from a2 reaches without passing through the root, each once; the
\* traversal ends on every ligand, rings included.
AtomsToRotateAreDownstream ==
    "atoms_to_rotate" \in DOMAIN rot =>
        LET atoms == rot.atoms_to_rotate
        IN  /\ Len(atoms) >= 2
            /\ atoms[1] = index(name, input.a1)
            /\ atoms[2] = index(name, input.a2)
            /\ \A i, j \in DOMAIN atoms : i # j => atoms[i] # atoms[j]
            /\ Range(Tail(atoms)) = Downstream

\* a bond of a ring: the traversal comes back to the root from the far
\* side, and a rotation has been made with the atoms collected
RingBondWitness ==
    /\ "atoms_to_rotate" \in DOMAIN rot
    /\ rot.foundroot >= 2
    /\ Len(rot.atoms_to_rotate) >= 4
    /\ done.op = "BondRotator"

RECURSIVE Around(_, _, _)
\* the atoms connected to the atoms of set by bonds other than root-a2
Around(set, root, a2) ==
    LET more == set \cup {j \in DOMAIN conn :
                             \E i \in set : conn[i][j] # 0 /\ ~(i = root /\ j = a2)}
    IN  IF more = set THEN set ELSE Around(more, root, a2)

\* the bond a1-a2 lies in a ring: a2 is reached from a1 without the bond
BondInRing ==
    index(name, input.a2) \in Around({index(name, input.a1)}, index(name, input.a1),
                                     index(name, input.a2))

\* C21: _foundroot is the number of traversed atoms bonded to the root, 1
\* for a bond in no ring and more for a bond in a ring; it stops no
\* construction: the only failure is the aligner's, for a bond along Z.
FoundRootIsInformational ==
    /\ "foundroot" \in DOMAIN rot =>
          /\ rot.foundroot =
                Cardinality({i \in Range(Tail(rot.atoms_to_rotate)) : conn[i][rot.root] # 0})
          /\ ~BondInRing => rot.foundroot = 1
          /\ BondInRing => rot.foundroot > 1
    /\ "foundroot" \notin DOMAIN rot =>
          LET v == VSub(coor0[index(name, input.a2)], coor0[index(name, input.a1)])
          IN  v[1] = Zero /\ v[2] = Zero

\* a rotator built on a bond of a ring, and called
RingBondAcceptedWitness ==
    /\ "foundroot" \in DOMAIN rot
    /\ BondInRing
    /\ rot.foundroot = 2
    /\ call.op = "BondRotator"
    /\ ret # coor0

\* ------------------------------------------------------------------------
\* ChiRotator on a residue with a covalently attached fragment
\* ------------------------------------------------------------------------

\* residues of length atoms followed by the atoms of a fragment: no
\* fragment, a fragment with names of its own, a fragment with an atom
\* named as the residue's CD, a fragment with an atom named as the
\* residue's O
CovalentResidues ==
    { [names |-> <<"N", "CA", "CB", "CG", "CD", "O">>, length |-> 6, chis |-> {1, 2},
       extra |-> <<>>],
      [names |-> <<"N", "CA", "CB", "CG", "CD", "O", "C1", "O1">>, length |-> 6, chis |-> {1, 2},
       extra |-> <<V(3, 1, 3), V(3, 2, 3)>>],
      [names |-> <<"N", "CA", "CB", "CG", "CD", "O", "C1", "CD">>, length |-> 6, chis |-> {1},
       extra |-> <<V(3, 1, 3), V(3, 2, 3)>>],
      [names |-> <<"N", "CA", "CB", "CG", "CD", "O", "C1", "O">>, length |-> 6, chis |-> {1, 2},
       extra |-> <<V(3, 1, 3), V(3, 2, 3)>>] }

\* the atom the fragment is bonded to, if any
CovalentAtoms == {NoName, "CB", "CG", "CD"}

InitCovalent ==
    /\ \E res \in CovalentResidues :
         /\ name = res.names
         /\ \E g \in {1, 2} : coor = ChiResidueCoor(g) \o <<V(0, 1, -1)>> \o res.extra
         /\ \E chi_index \in res.chis, covalent \in CovalentAtoms :
              input = [chi_index |-> chi_index, covalent |-> covalent, length |-> res.length]
    /\ rot = ChiInit(name, coor, input.chi_index, input.covalent, input.length)
    /\ err = IF rot.ok THEN "none" ELSE rot.error
    /\ coor0 = coor
    /\ conn = <<>>
    /\ ret = None
    /\ call = NoCall
    /\ done = NoCall
    /\ nset = 0
    /\ dirty = FALSE

NextCovalent == ChiTurn

SpecCovalent == InitCovalent /\ [][NextCovalent]_vars

\* the atoms of the residue proper that the torsion moves
ChiRotateAtoms == {i \in 1..input.length : name[i] \in Range(ChiRotate(input.chi_index))}

\* the atoms of the fragment
FragmentAtoms == (input.length + 1)..Len(name)

\* no atom of the fragment is named as an atom of the residue
FragmentNamesApart == \A i \in 1..input.length, j \in FragmentAtoms : name[i] # name[j]

\* C22: the selection a sampler computed at construction holds each atom
\* index at most once and only indices of the structure, and is after any
\* number of calls what construction made it.
SelectionIsUniqueAndFixed ==
    "atom_selection" \in DOMAIN rot =>
        LET sel == rot.atom_selection
        IN  /\ \A i, j \in DOMAIN sel : i # j => sel[i] # sel[j]
            /\ \A i \in DOMAIN sel : sel[i] \in DOMAIN name
            /\ sel = ChiInit(name, coor0, input.chi_index, input.covalent,
                             input.length).atom_selection

\* C25: the moved set is the chi-rotate atoms and the fragment when the
\* covalent atom is a chi-rotate atom of the chosen chi index, and the
\* chi-rotate atoms alone otherwise.
FragmentMovesWithCovalentAtom ==
    "atom_selection" \in DOMAIN rot =>
        Range(rot.atom_selection) =
            IF input.covalent \in Range(ChiRotate(input.chi_index))
            THEN ChiRotateAtoms \cup FragmentAtoms
            ELSE ChiRotateAtoms

\* ------------------------------------------------------------------------
\* BackboneRotator: the atom sets and the order of the rotations
\* ------------------------------------------------------------------------

\* the selections in the order get_psi_phi_angles yields them
YieldedSelections == PsiPhi(input, "psi_sel", "phi_sel")

\* C23: the i-th stored atom set is the union of the selections yielded up
\* to the i-th, each atom once, so each stored set is within the next one.
AtomSetsAreCumulative ==
    IsBackbone =>
        /\ Len(rot.atoms_to_rotate) = Len(YieldedSelections)
        /\ \A i \in DOMAIN rot.atoms_to_rotate :
              LET stored == rot.atoms_to_rotate[i]
              IN  /\ Range(stored) =
                        UNION {Range(YieldedSelections[k]) : k \in 1..i}
                  /\ \A m, n \in DOMAIN stored : m # n => stored[m] # stored[n]
                  /\ i > 1 => Range(rot.atoms_to_rotate[i - 1]) \subseteq Range(stored)

\* a rotator whose second set adds atoms to the first and repeats none,
\* after a call that moved the segment
CumulativeWitness ==
    /\ IsBackbone
    /\ Range(rot.atoms_to_rotate[1]) # Range(rot.atoms_to_rotate[2])
    /\ Range(YieldedSelections[1]) \cap Range(YieldedSelections[2]) # {}
    /\ done.op = "BackboneRotator"
    /\ coor # coor0

RECURSIVE AfterRotations(_, _)
\* the segment after the first k rotations of a call, the k-th made with
\* the angle at position ndofs - 1 - (k - 1) of the torsions given
AfterRotations(torsions, k) ==
    IF k = 0 THEN coor0
    ELSE LET before == AfterRotations(torsions, k - 1)
             angle == deg2rad(torsions[Len(torsions) + 1 - k])
         IN  IF angle = 0 THEN before ELSE BackboneRotation(rot, before, angle, k)

\* C24: the i-th rotation of a call uses the angle at position
\* ndofs - 1 - i of the input with the i-th origin, aligner and atom set of
\* construction, which are those of the i-th torsion yielded; the last
\* angle is applied first, to the smallest atom set.
RotationsRunInReverse ==
    IsBackbone =>
        /\ rot.origins = PsiPhi(input, "psi_origin", "phi_origin")
        /\ \A i \in DOMAIN rot.aligners :
              rot.aligners[i] = ZAxisAligner(PsiPhi(input, "psi_axis", "phi_axis")[i])
        /\ \A i \in DOMAIN rot.atoms_to_rotate :
              Range(rot.atoms_to_rotate[1]) \subseteq Range(rot.atoms_to_rotate[i])
        /\ done.op = "BackboneRotator" => coor = AfterRotations(done.arg, rot.ndofs)

\* a call whose angles give another segment when paired with the torsions
\* in the order given
ReverseWitness ==
    /\ IsBackbone
    /\ done.op = "BackboneRotator"
    /\ done = call
    /\ done.arg[1] # done.arg[Len(done.arg)]
    /\ coor # BackboneLoop(rot, [i \in DOMAIN done.arg |-> deg2rad(done.arg[i])],
                           coor0, 1, 0).coor

\* ------------------------------------------------------------------------
\* Two samplers bound to residues of one structure
\* ------------------------------------------------------------------------

\* the atoms of each residue of the structure
ResidueSize == Len(ChiResidueNames)

\* the first atom of residue r, less one
ResidueOffset(r) == (r - 1) * ResidueSize

\* residue.coor: the rows of the structure that belong to residue r
ResidueCoor(c, r) == SubSeq(c, ResidueOffset(r) + 1, ResidueOffset(r) + ResidueSize)

\* a write through residue r lands in the rows of the structure
ResidueWrite(c, r, rc) ==
    [i \in DOMAIN c |->
        IF i - ResidueOffset(r) \in 1..ResidueSize THEN rc[i - ResidueOffset(r)] ELSE c[i]]

\* a sampler of one kind constructed on residue r of the structure
SharedBind(kind, r, c) ==
    [kind |-> kind, residue |-> r,
     obj |-> CASE kind \in {"chi1", "chi2"} ->
                    ChiInit(ChiResidueNames, ResidueCoor(c, r), IF kind = "chi1" THEN 1 ELSE 2,
                            NoName, 0)
               [] kind = "cb" -> CBAngleInit(ChiResidueNames, ResidueCoor(c, r))
               [] kind = "bisecting" -> BisectingAngleInit(ChiResidueNames, ResidueCoor(c, r))]

\* the sampler's __call__(angle) on the structure with coordinates c
Turned(s, c, angle) ==
    ResidueWrite(c, s.residue,
        CASE s.kind \in {"chi1", "chi2"} -> ChiCall(s.obj, ResidueCoor(c, s.residue), angle).coor
          [] s.kind = "cb" -> CBAngleCall(s.obj, ResidueCoor(c, s.residue), angle)
          [] s.kind = "bisecting" -> BisectingAngleCall(s.obj, ResidueCoor(c, s.residue), angle))

\* the atoms of the structure the sampler writes
SharedSelection(s) ==
    {ResidueOffset(s.residue) + i :
        i \in Range(IF s.kind \in {"chi1", "chi2"} THEN s.obj.atom_selection
                                                   ELSE s.obj.atoms_to_rotate)}

\* mutant: the call adds to its atoms what has moved them since construction
SharedCallComposes(s, c, angle) ==
    [i \in DOMAIN c |->
        IF i \in SharedSelection(s)
        THEN VAdd(Turned(s, c, angle)[i], VSub(c[i], coor0[i]))
        ELSE c[i]]

\* mutant: the call first puts the structure back as it was at construction
SharedCallFromStart(s, c, angle) == Turned(s, coor0, angle)

\* sampler(angle): from the coordinates cached at construction
SharedCall(s, c, angle) == Turned(s, c, angle)

SharedKinds == {"chi1", "chi2", "cb", "bisecting"}

\* angles in degrees
SharedAngles == {0, 90}

InitShared ==
    /\ name = ChiResidueNames \o ChiResidueNames
    /\ coor = ChiResidueCoor(1) \o ChiResidueCoor(2)
    /\ \E sa, sb \in {SharedBind(kind, r, coor) : kind \in SharedKinds, r \in {1, 2}} :
         /\ sa.residue = 1
         /\ sa.obj.ok /\ sb.obj.ok
         /\ rot = [a |-> sa, b |-> sb]
    /\ input = [a |-> [kind |-> rot.a.kind, residue |-> rot.a.residue],
                b |-> [kind |-> rot.b.kind, residue |-> rot.b.residue]]
    /\ err = "none"
    /\ coor0 = coor
    /\ conn = <<>>
    /\ ret = None
    /\ call = NoCall
    /\ done = NoCall
    /\ nset = 0
    /\ dirty = FALSE

\* a call of one of the two samplers; done keeps the call before it
SharedStep(which) ==
    \E angle \in SharedAngles :
        /\ coor' = SharedCall(IF which = "first" THEN rot.a ELSE rot.b, coor, angle)
        /\ call' = [op |-> which, arg |-> angle]
        /\ done' = call
        /\ dirty' = (coor' # coor0)
        /\ UNCHANGED <<name, conn, input, rot, err, ret, coor0, nset>>

CallFirst == SharedStep("first")

CallSecond == SharedStep("second")

\* another writer moves every atom of the structure, once
OutsideWrite ==
    /\ nset = 0
    /\ nset' = 1
    /\ coor' = [i \in DOMAIN coor |-> VAdd(coor[i], V(0, 0, 1))]
    /\ call' = [op |-> "write", arg |-> 0]
    /\ done' = call
    /\ dirty' = TRUE
    /\ UNCHANGED <<name, conn, input, rot, err, ret, coor0>>

NextShared == CallFirst \/ CallSecond \/ OutsideWrite

SpecShared == InitShared /\ [][NextShared]_vars

\* the sampler that made the last call
LastCaller == IF call.op = "first" THEN rot.a ELSE rot.b

\* C26: what a call writes for its atoms is what the coordinates cached at
\* construction and the angle give, whatever was written to those atoms
\* since construction.
CallsWriteFromTheCache ==
    call.op \in {"first", "second"} =>
        \A i \in SharedSelection(LastCaller) :
            coor[i] = SharedCall(LastCaller, coor0, call.arg)[i]

\* two samplers that share atoms, called one after the other: the second
\* call has undone what the first did to a shared atom, and the two orders
\* end in different structures
OverwriteWitness ==
    /\ call.op = "first" /\ done.op = "second"
    /\ rot.a.kind # rot.b.kind
    /\ \E i \in SharedSelection(rot.a) \cap SharedSelection(rot.b) :
         /\ SharedCall(rot.b, coor0, done.arg)[i] # coor0[i]
         /\ coor[i] # SharedCall(rot.b, coor0, done.arg)[i]
    /\ SharedCall(rot.a, SharedCall(rot.b, coor0, done.arg), call.arg)
         # SharedCall(rot.b, SharedCall(rot.a, coor0, call.arg), done.arg)

\* C27: calls of two samplers with disjoint selections commute, and each
\* leaves the atoms of the other where they are.
DisjointCallsCommute ==
    SharedSelection(rot.a) \cap SharedSelection(rot.b) = {} =>
        \A a, b \in SharedAngles :
            /\ SharedCall(rot.b, SharedCall(rot.a, coor, a), b)
                 = SharedCall(rot.a, SharedCall(rot.b, coor, b), a)
            /\ \A i \in SharedSelection(rot.b) : SharedCall(rot.a, coor, a)[i] = coor[i]
            /\ \A i \in SharedSelection(rot.a) : SharedCall(rot.b, coor, b)[i] = coor[i]

\* both of two samplers with disjoint selections have moved their atoms
CommuteWitness ==
    /\ SharedSelection(rot.a) \cap SharedSelection(rot.b) = {}
    /\ call.op = "second" /\ done.op = "first"
    /\ \E i \in SharedSelection(rot.a) : coor[i] # coor0[i]
    /\ \E i \in SharedSelection(rot.b) : coor[i] # coor0[i]

\* ------------------------------------------------------------------------
\* mmCIF parser: a table named twice in one block
\* ------------------------------------------------------------------------

\* C28: a loop_ for a table its block already has, from single items or
\* from an earlier loop_, ends the parse with a syntax error, and every
\* table the parser has made is still in its block.
LoopRedefinitionIsRejected ==
    /\ (rot.pc = "ended" /\ input.file.reloop) => rot.outcome = "mmCIFSyntaxError"
    /\ Cardinality(TablesOfFile(rot)) = Len(rot.st.tables)

\* ------------------------------------------------------------------------
\* mmCIFData: assignment at an integer index
\* ------------------------------------------------------------------------

\* cdata[i] = table, for an index i the block has; ret keeps the tables the
\* block held before the call
CifDataSetItem ==
    \E b \in DOMAIN rot.blocks, t \in DOMAIN rot.tables, i \in {-1, 0, 1} :
        /\ ListIndex(rot.blocks[b].tables, i) # 0
        /\ LET out == DataSetItem(rot, b, i, t)
           IN  /\ rot' = out.st
               /\ err' = out.err
               /\ call' = [op |-> "mmCIFData.__setitem__", arg |-> <<b, t, i>>]
               /\ done' = IF out.err = "none" THEN call' ELSE done
               /\ ret' = rot.blocks[b].tables
               /\ UNCHANGED <<name, coor, conn, input, coor0, nset, dirty>>

NextSetItem == NextCif \/ CifDataSetItem

SpecSetItem == InitCif /\ [][NextSetItem]_vars

\* C30: mmCIFData.__setitem__(i, table) with a valid integer index i
\* replaces exactly the table at position i: the call returns, the block
\* has as many tables as before, every other position keeps its table, and
\* the data of the new table is the block.
SetItemReplacesOnePosition ==
    call.op = "mmCIFData.__setitem__" =>
        LET b == call.arg[1]
            t == call.arg[2]
            p == ListIndex(ret, call.arg[3])
            now == rot.blocks[b].tables
        IN  /\ err = "none"
            /\ Len(now) = Len(ret)
            /\ \A q \in DOMAIN ret : q # p => now[q] = ret[q]
            /\ now[p] = t
            /\ rot.tables[t].data = b

\* ------------------------------------------------------------------------
\* mmCIFFile: save_file, then load_file of the text written
\* ------------------------------------------------------------------------

\* values of a row: plain, with a space, with #, of several lines, with
\* trailing blanks, and ones that read as a reserved word, an item, a
\* quoted string, the start of a multi-line string, or the missing value
RoundTripValues ==
    {"abc", "a b", "#x", "a\nb", "x\ny ", "a\n;b", "loop_", "stop_", "data_1abc",
     "_cell.v", "'abc'", ";x", "a\tb'\tc", "."}

\* an mmCIFFile with one data block and one table of one or two rows, a
\* value for every column of every row
RoundTripFile(id, v, more) ==
    <<[name |-> "1abc",
       tables |-> <<[name |-> "cell",
                     columns |-> <<"id", "v">>,
                     rows |-> << << <<"id", id>>, <<"v", v>> >> >>
                              \o (IF more THEN << << <<"id", "2">>, <<"v", "k">> >> >>
                                  ELSE <<>>)]>>]>>

InitRoundTrip ==
    /\ \E x \in RoundTripValues, first \in BOOLEAN, more \in BOOLEAN, pep479 \in BOOLEAN :
         LET file == IF first THEN RoundTripFile(x, "1", more) ELSE RoundTripFile("1", x, more)
         IN  /\ input = [file |-> file, pep479 |-> pep479]
             /\ rot = [parse_file(<<>>, pep479) EXCEPT !.tokens = SavedTokens(file)]
    /\ name = <<>>
    /\ coor = <<>>
    /\ coor0 = <<>>
    /\ conn = <<>>
    /\ err = "none"
    /\ ret = None
    /\ call = NoCall
    /\ done = NoCall
    /\ nset = 0
    /\ dirty = FALSE

SpecRoundTrip == InitRoundTrip /\ [][NextParser]_vars

\* the data blocks of the mmCIFFile a parse has filled, with their tables,
\* columns and rows
Loaded(p) ==
    [k \in DOMAIN p.st.file |->
       LET cif_data == p.st.blocks[p.st.file[k]]
       IN  [name |-> cif_data.name,
            tables |-> [j \in DOMAIN cif_data.tables |->
                          [name |-> p.st.tables[cif_data.tables[j]].name,
                           columns |-> p.columns[cif_data.tables[j]],
                           rows |-> p.rows[cif_data.tables[j]]]]]]

\* C29: save_file followed by load_file of the written text is a round
\* trip: the parse runs to the end of the text, and the file it has filled
\* has the same data blocks, the same tables and columns in the same order,
\* and the same value in every row and column.
SaveThenLoadIsRoundTrip ==
    rot.pc = "ended" =>
        /\ rot.outcome \in {"returned", "RuntimeError"}
        /\ Loaded(rot) = input.file

\* the values for which the round trip holds in every file
PlainValuesRoundTrip ==
    (rot.pc = "ended"
       /\ \A r \in DOMAIN input.file[1].tables[1].rows :
            \A k \in 1..2 : input.file[1].tables[1].rows[r][k][2]
                              \in {"abc", "a b", "#x", "a\nb", "1", "2", "k"})
    => Loaded(rot) = input.file

====
